---------------------------- MODULE Spec2Model ----------------------------
(***************************************************************************)
(* crypto_proxy: the Binance parsers (src/parser/binance_parser.rs), the   *)
(* frame codec (src/mkt_msg.rs), the broadcast bus they publish on and the *)
(* wall-clock REST fetcher (src/rest_fetcher.rs).                          *)
(*                                                                         *)
(* Conventions.  An i64 timestamp is an integer of milliseconds counted    *)
(* from PERIOD_INIT_TP_MS.  An f64 is held in hundredths (100.5 is         *)
(* 10050).  An encoded frame is the sequence of the fields to_bytes        *)
(* writes, each with its wire type, in the order they are written.         *)
(***************************************************************************)
EXTENDS Integers, Sequences, FiniteSets, TLC

VARIABLES
    bus,        \* the frames retained by the broadcast channel, oldest first
    sent,       \* the position of the channel: frames sent on it so far
    calls,      \* number of Parser::parse calls made so far
    last,       \* the most recent parse call: parser, payload, return value
    tasks,      \* REST tasks spawned by the futures kline parser
    mode,       \* the loop of rest_fetcher.rs that runs: "rest", "timer", "off"
    now,        \* the clock (SystemTime and Instant advance together)
    pc,         \* the await point the loop is at
    tick_close_time,    \* close_time of the current tick of the loop
    pending_five_min,   \* Option<(i64, Instant)> of run_rest_fetcher_with_sender
    fetcher_symbols,    \* BinanceRestFetcher::symbols
    refresh_res,    \* what the last call of refresh_symbols returned
    bapi_cache, \* the BinanceMktStatusCache of run_rest_fetcher_with_sender
    ticks,      \* ticks of the loop begun so far
    passes,     \* the five-minute passes issued so far
    one_min_result,     \* the OneMinuteResult of the current tick
    five_min_result,    \* the FiveMinuteResult of the current tick
    fetch_req,  \* a single request: endpoint, symbol, close_time, response
    fetch_res,  \* what the fetch function returned for it
    fetch_pc,   \* "call" before the fetch function has run, "done" after
    chan,       \* the broadcast channels Proxy receives from: retained frames, position
    published,  \* every frame sent on each channel so far, in the order of the sends
    sessions,   \* the sessions that share the channels: the sends left of their parse call
    rx_next,    \* position of the next frame of each receiver of Proxy
    proxy_count,    \* inc_count and trade_count of Proxy
    forwarded,  \* the frames Proxy::run handed to the forwarder, in order
    default_parsers,    \* the message types the default parsers of Proxy return None for
    shutdown,   \* the value of the global shutdown watch channel
    shutdown_unseen,    \* the watch channel holds a value its receiver in Proxy has not seen
    dropped,    \* the channels of Proxy all of whose senders are dropped
    proxy_pc,   \* "run" while Proxy::run loops, "stopped" after its break
    conn_url,   \* the url and sub_msg WsConnector::connect was called with
    conn_pc,    \* the await point WsConnector::connect is at
    conn_retry, \* the loop variable retry of WsConnector::connect
    conn_log,   \* what connect did so far: connection attempts, sleeps, frames sent
    conn_res,   \* what connect returned
    retry_label,    \* the label fetch_with_retry was called with
    retry_pc,       \* the point fetch_with_retry is at
    attempt,        \* the loop variable attempt of fetch_with_retry
    last_error,     \* last_error of fetch_with_retry
    retry_log,      \* what fetch_with_retry did so far: requests with their outcome, sleeps
    retry_res,      \* what fetch_with_retry returned
    join_slots      \* the futures a pass of the fetcher joins: None while pending, else the result

parserVars == <<calls, last, tasks>>
restVars == <<mode, now, pc, tick_close_time, pending_five_min, fetcher_symbols, refresh_res, bapi_cache, ticks, passes, one_min_result, five_min_result>>
fetchVars == <<fetch_req, fetch_res, fetch_pc>>
connVars == <<conn_url, conn_pc, conn_retry, conn_log, conn_res>>
retryVars == <<retry_label, retry_pc, attempt, last_error, retry_log, retry_res>>
proxyVars == <<chan, published, sessions, rx_next, proxy_count, forwarded, default_parsers, shutdown, shutdown_unseen, dropped, proxy_pc>>
vars == <<bus, sent, calls, last, tasks, mode, now, pc, tick_close_time, pending_five_min, fetcher_symbols, refresh_res, bapi_cache, ticks, passes, one_min_result, five_min_result, fetch_req, fetch_res, fetch_pc, chan, published, sessions, rx_next, proxy_count, forwarded, default_parsers, shutdown, shutdown_unseen, dropped, proxy_pc, conn_url, conn_pc, conn_retry, conn_log, conn_res, retry_label, retry_pc, attempt, last_error, retry_log, retry_res, join_slots>>

-----------------------------------------------------------------------------
(* Bounds of the model.                                                    *)

\* frames the broadcast channel retains (the ring buffer of the channel)
BusCapacity == 4
\* parse calls in one behaviour
MaxCalls == 1
\* ticks of the REST fetcher loop (or of the bar-close timer) in one behaviour
MaxTicks == 4
\* parse calls of the sessions that share the channels of Proxy, in one behaviour
MaxBusCalls == 3
\* closed-kline events the futures kline session receives in one behaviour
MaxKlineCalls == 2

-----------------------------------------------------------------------------
(* serde_json::Value, as far as the parsers look at it.                    *)

JNull == [k |-> "null", v |-> 0]
JInt(n) == [k |-> "int", v |-> n]
JStr(s) == [k |-> "str", v |-> s]
JBool(b) == [k |-> "bool", v |-> b]
JArr(s) == [k |-> "arr", v |-> s]
JObj(r) == [k |-> "obj", v |-> r]
\* bytes that are not UTF-8, or not JSON
NotJson == [k |-> "bad", v |-> 0]

\* Value::get(key): None (JNull here) on a missing key or a non-object
get(j, key) == IF j.k = "obj" /\ key \in DOMAIN j.v THEN j.v[key] ELSE JNull
is_some(j) == j.k # "null"
as_i64(j) == j.k = "int"
as_str(j) == j.k = "str"
as_bool(j) == j.k = "bool"
as_array(j) == j.k = "arr"

\* str::parse::<f64>() on the strings the payloads of the model carry:
\* the value in hundredths; a string outside the table does not parse
F64Table ==
    ("0" :> 0) @@ ("1" :> 100) @@ ("2" :> 200) @@ ("100" :> 10000) @@
    ("101" :> 10100) @@ ("100.5" :> 10050) @@ ("0.01" :> 1) @@ ("-1" :> -100)
parse_f64_ok(s) == s \in DOMAIN F64Table
parse_f64(s) == F64Table[s]

\* str::len() and str::to_lowercase() on the symbols of the model
len(s) == (("BTCUSDT" :> 7) @@ ("ETHUSDT" :> 7) @@ ("btcusdt" :> 7) @@ ("BNB" :> 3))[s]
to_lowercase(s) ==
    (("BTCUSDT" :> "btcusdt") @@ ("ETHUSDT" :> "ethusdt") @@
     ("btcusdt" :> "btcusdt") @@ ("BNB" :> "bnb"))[s]

-----------------------------------------------------------------------------
(* BytesMut::put_*: one field of an encoded frame.                         *)

U32(x) == [wire |-> "u32", wval |-> x]
I64(x) == [wire |-> "i64", wval |-> x]
F64(x) == [wire |-> "f64", wval |-> x]
U8(x) == [wire |-> "u8", wval |-> x]
Raw(s) == [wire |-> "raw", wval |-> s]
\* n zero bytes
Pad(n) == [wire |-> "pad", wval |-> n]

Width(fld) ==
    CASE fld.wire = "u32" -> 4
      [] fld.wire = "i64" -> 8
      [] fld.wire = "f64" -> 8
      [] fld.wire = "u8" -> 1
      [] fld.wire = "raw" -> len(fld.wval)
      [] fld.wire = "pad" -> fld.wval

RECURSIVE FrameLen(_)
FrameLen(f) == IF f = <<>> THEN 0 ELSE Width(Head(f)) + FrameLen(Tail(f))

\* MktMsgType discriminants
TradeInfo == 1001
OrderBookInc == 1005
BinanceIncSeqNo == 1016

\* 'B' and 'S' as u8
SideB == 66
SideS == 83

Kline == 1010
MarkPrice == 1011
IndexPrice == 1012
LiquidationOrder == 1013
FundingRate == 1014
PremiumIndexKline == 1015
BinanceTopLongShortRatio == 1017
RestSummary1m == 1018
RestSummary5m == 1019
TimeSignal == 1111

\* SignalSource discriminants
Ipc == 1
Tcp == 2

-----------------------------------------------------------------------------
(* mkt_msg.rs: the messages the depth, snapshot, trade and signal parsers  *)
(* build, and their to_bytes.                                              *)

BinanceIncSeqNoMsg_create(symbol, pu, u, u_upper, timestamp) ==
    [symbol |-> symbol, pu |-> pu, u |-> u, u_upper |-> u_upper,
     timestamp |-> timestamp]

\* a plausible slip: u and u_upper written in the other order
BinanceIncSeqNoMsg_to_bytes_swapped(m) ==
    <<U32(BinanceIncSeqNo), U32(len(m.symbol)), Raw(m.symbol),
      I64(m.pu), I64(m.u_upper), I64(m.u), I64(m.timestamp)>>

BinanceIncSeqNoMsg_to_bytes(m) ==
    <<U32(BinanceIncSeqNo), U32(len(m.symbol)), Raw(m.symbol),
      I64(m.pu), I64(m.u), I64(m.u_upper), I64(m.timestamp)>>

Level_from_values(price, amount) == [price |-> price, amount |-> amount]

\* unwrap_or(0.0) on each of the two strings
Level_new(price_str, amount_str) ==
    [price |-> IF parse_f64_ok(price_str) THEN parse_f64(price_str) ELSE 0,
     amount |-> IF parse_f64_ok(amount_str) THEN parse_f64(amount_str) ELSE 0]

IncMsg_create(symbol, first_update_id, final_update_id, timestamp, is_snapshot, bids_count, asks_count) ==
    [symbol |-> symbol,
     first_update_id |-> first_update_id,
     final_update_id |-> final_update_id,
     timestamp |-> timestamp,
     is_snapshot |-> is_snapshot,
     bids_count |-> bids_count,
     asks_count |-> asks_count,
     levels |-> [i \in 1..(bids_count + asks_count) |-> Level_from_values(0, 0)]]

\* set_bid_level without the test against bids_count
set_bid_level_any_slot(m, index, level) ==
    IF index < Len(m.levels)
    THEN [m EXCEPT !.levels[index + 1] = level]
    ELSE m

\* index is the 0-based index of the code; levels[index] is levels[index + 1] here
set_bid_level(m, index, level) ==
    IF index < m.bids_count /\ index < Len(m.levels)
    THEN [m EXCEPT !.levels[index + 1] = level]
    ELSE m

set_ask_level(m, index, level) ==
    LET ask_index == m.bids_count + index IN
    IF index < m.asks_count /\ ask_index < Len(m.levels)
    THEN [m EXCEPT !.levels[ask_index + 1] = level]
    ELSE m

RECURSIVE LevelBytes(_)
LevelBytes(levels) ==
    IF levels = <<>> THEN <<>>
    ELSE <<F64(Head(levels).price), F64(Head(levels).amount)>> \o LevelBytes(Tail(levels))

IncMsg_to_bytes(m) ==
    <<U32(OrderBookInc), U32(len(m.symbol)), Raw(m.symbol),
      I64(m.first_update_id), I64(m.final_update_id), I64(m.timestamp),
      U8(IF m.is_snapshot THEN 1 ELSE 0), Pad(7),
      U32(m.bids_count), U32(m.asks_count)>> \o LevelBytes(m.levels)

TradeMsg_create(symbol, id, timestamp, side, price, amount) ==
    [symbol |-> symbol, id |-> id, timestamp |-> timestamp, side |-> side,
     price |-> price, amount |-> amount]

\* a plausible slip: the 7 bytes of padding after the side are not written
TradeMsg_to_bytes_unpadded(m) ==
    <<U32(TradeInfo), U32(len(m.symbol)), Raw(m.symbol),
      I64(m.id), I64(m.timestamp), U8(m.side),
      F64(m.price), F64(m.amount)>>

TradeMsg_to_bytes(m) ==
    <<U32(TradeInfo), U32(len(m.symbol)), Raw(m.symbol),
      I64(m.id), I64(m.timestamp), U8(m.side), Pad(7),
      F64(m.price), F64(m.amount)>>

SignalMsg_create(src, tp) == [source |-> src, timestamp |-> tp]

SignalMsg_to_bytes(m) == <<U32(TimeSignal), U32(m.source), I64(m.timestamp)>>

-----------------------------------------------------------------------------
(* The broadcast channel.                                                  *)

\* receivers attached to the channel: Proxy owns its receivers for its whole life
NumReceivers == 1

\* number of the sends of a call that succeed, of n sends:
\* broadcast::Sender::send is Err exactly when no receiver is attached
Sent(n) == IF NumReceivers > 0 THEN n ELSE 0

\* One entry of the channel is the frame f and who sent it (by, id: the parse
\* call, the spawning parse call of a task, or the close_time of a tick).
RECURSIVE Publish_until_full(_, _, _, _)
\* a plausible slip: a full channel refuses the frame instead of overwriting
\* its oldest entry
Publish_until_full(b, by, id, fs) ==
    IF fs = <<>> \/ Sent(1) = 0 THEN b
    ELSE Publish_until_full(IF Len(b) >= BusCapacity THEN b
                            ELSE Append(b, [by |-> by, id |-> id, f |-> Head(fs)]),
                            by, id, Tail(fs))

RECURSIVE Publish(_, _, _, _)
\* the channel after the frames fs were sent in order: a full ring buffer
\* overwrites its oldest entry
Publish(b, by, id, fs) ==
    IF fs = <<>> \/ Sent(1) = 0 THEN b
    ELSE LET s == Append(b, [by |-> by, id |-> id, f |-> Head(fs)]) IN
         Publish(IF Len(s) > BusCapacity THEN Tail(s) ELSE s, by, id, Tail(fs))

-----------------------------------------------------------------------------
(* binance_parser.rs: depth, snapshot, trade and signal parsers.  The      *)
(* result of a parse is the frames it sends, in order (out), the value it  *)
(* returns (ret) and the REST tasks it spawns (spawn).                     *)

Result(out, ret, spawn) == [out |-> out, ret |-> ret, spawn |-> spawn]
Nothing == Result(<<>>, 0, <<>>)

\* a plausible slip: an entry is used only when both strings parse as numbers
LevelEntryOk_parsed(item) ==
    /\ as_array(item)
    /\ Len(item.v) >= 2
    /\ as_str(item.v[1])
    /\ as_str(item.v[2])
    /\ parse_f64_ok(item.v[1].v)
    /\ parse_f64_ok(item.v[2].v)

\* a level entry is used when it is an array of at least two strings
LevelEntryOk(item) ==
    /\ as_array(item)
    /\ Len(item.v) >= 2
    /\ as_str(item.v[1])
    /\ as_str(item.v[2])

RECURSIVE ParseBids(_, _, _)
\* the bids loop of parse_order_book_levels, from 0-based index i on
ParseBids(m, arr, i) ==
    IF i >= Len(arr) THEN m
    ELSE ParseBids(
           IF LevelEntryOk(arr[i + 1])
           THEN set_bid_level(m, i, Level_new(arr[i + 1].v[1].v, arr[i + 1].v[2].v))
           ELSE m,
           arr, i + 1)

RECURSIVE ParseAsks(_, _, _)
\* the asks loop of parse_order_book_levels, from 0-based index i on
ParseAsks(m, arr, i) ==
    IF i >= Len(arr) THEN m
    ELSE ParseAsks(
           IF LevelEntryOk(arr[i + 1])
           THEN set_ask_level(m, i, Level_new(arr[i + 1].v[1].v, arr[i + 1].v[2].v))
           ELSE m,
           arr, i + 1)

parse_order_book_levels(bids_array, asks_array, inc_msg) ==
    ParseAsks(ParseBids(inc_msg, bids_array, 0), asks_array, 0)

\* a plausible slip: the OrderBookInc frame sent before its companion
parse_inc_event_inc_first(is_futures, j) ==
    LET timestamp_field == IF is_some(get(j, "T")) THEN "T" ELSE "E" IN
    IF /\ as_str(get(j, "s"))
       /\ as_i64(get(j, "U"))
       /\ as_i64(get(j, "u"))
       /\ as_i64(get(j, timestamp_field))
       /\ as_array(get(j, "b"))
       /\ as_array(get(j, "a"))
    THEN
        IF is_futures /\ ~as_i64(get(j, "pu")) THEN Nothing
        ELSE
            LET symbol == get(j, "s").v
                first_update_id == get(j, "U").v
                final_update_id == get(j, "u").v
                timestamp == get(j, timestamp_field).v
                bids_array == get(j, "b").v
                asks_array == get(j, "a").v
                prev_update_id == IF is_futures THEN get(j, "pu").v ELSE 0
                seq_msg == BinanceIncSeqNoMsg_create(symbol, prev_update_id,
                               final_update_id, first_update_id, timestamp)
                inc_msg == parse_order_book_levels(bids_array, asks_array,
                               IncMsg_create(symbol, first_update_id, final_update_id,
                                   timestamp, FALSE, Len(bids_array), Len(asks_array)))
            IN Result(<<IncMsg_to_bytes(inc_msg), BinanceIncSeqNoMsg_to_bytes(seq_msg)>>,
                      Sent(1) + Sent(1), <<>>)
    ELSE Nothing

\* a plausible slip: a missing pu read as 0, as for spot
parse_inc_event_pu_default(is_futures, j) ==
    LET timestamp_field == IF is_some(get(j, "T")) THEN "T" ELSE "E" IN
    IF /\ as_str(get(j, "s"))
       /\ as_i64(get(j, "U"))
       /\ as_i64(get(j, "u"))
       /\ as_i64(get(j, timestamp_field))
       /\ as_array(get(j, "b"))
       /\ as_array(get(j, "a"))
    THEN
        IF FALSE THEN Nothing
        ELSE
            LET symbol == get(j, "s").v
                first_update_id == get(j, "U").v
                final_update_id == get(j, "u").v
                timestamp == get(j, timestamp_field).v
                bids_array == get(j, "b").v
                asks_array == get(j, "a").v
                prev_update_id == IF is_futures /\ as_i64(get(j, "pu")) THEN get(j, "pu").v ELSE 0
                seq_msg == BinanceIncSeqNoMsg_create(symbol, prev_update_id,
                               final_update_id, first_update_id, timestamp)
                inc_msg == parse_order_book_levels(bids_array, asks_array,
                               IncMsg_create(symbol, first_update_id, final_update_id,
                                   timestamp, FALSE, Len(bids_array), Len(asks_array)))
            IN Result(<<BinanceIncSeqNoMsg_to_bytes(seq_msg), IncMsg_to_bytes(inc_msg)>>,
                      Sent(1) + Sent(1), <<>>)
    ELSE Nothing

parse_inc_event(is_futures, j) ==
    LET timestamp_field == IF is_some(get(j, "T")) THEN "T" ELSE "E" IN
    IF /\ as_str(get(j, "s"))
       /\ as_i64(get(j, "U"))
       /\ as_i64(get(j, "u"))
       /\ as_i64(get(j, timestamp_field))
       /\ as_array(get(j, "b"))
       /\ as_array(get(j, "a"))
    THEN
        IF is_futures /\ ~as_i64(get(j, "pu")) THEN Nothing
        ELSE
            LET symbol == get(j, "s").v
                first_update_id == get(j, "U").v
                final_update_id == get(j, "u").v
                timestamp == get(j, timestamp_field).v
                bids_array == get(j, "b").v
                asks_array == get(j, "a").v
                prev_update_id == IF is_futures THEN get(j, "pu").v ELSE 0
                seq_msg == BinanceIncSeqNoMsg_create(symbol, prev_update_id,
                               final_update_id, first_update_id, timestamp)
                inc_msg == parse_order_book_levels(bids_array, asks_array,
                               IncMsg_create(symbol, first_update_id, final_update_id,
                                   timestamp, FALSE, Len(bids_array), Len(asks_array)))
            IN Result(<<BinanceIncSeqNoMsg_to_bytes(seq_msg), IncMsg_to_bytes(inc_msg)>>,
                      Sent(1) + Sent(1), <<>>)
    ELSE Nothing

BinanceIncParser_parse(is_futures, msg) ==
    IF msg.k # "bad" /\ as_str(get(msg, "e")) /\ get(msg, "e").v = "depthUpdate"
    THEN parse_inc_event(is_futures, msg)
    ELSE Nothing

\* a plausible slip: the update ids of a snapshot are lastUpdateId itself
parse_snapshot_event_same_id(j) ==
    IF /\ as_str(get(j, "s"))
       /\ as_i64(get(j, "lastUpdateId"))
       /\ as_array(get(j, "bids"))
       /\ as_array(get(j, "asks"))
    THEN
        LET last_update_id == get(j, "lastUpdateId").v
            bids_array == get(j, "bids").v
            asks_array == get(j, "asks").v
            inc_msg == parse_order_book_levels(bids_array, asks_array,
                           IncMsg_create(get(j, "s").v, last_update_id,
                               last_update_id, 0, TRUE,
                               Len(bids_array), Len(asks_array)))
        IN Result(<<IncMsg_to_bytes(inc_msg)>>, Sent(1), <<>>)
    ELSE Nothing

parse_snapshot_event(j) ==
    IF /\ as_str(get(j, "s"))
       /\ as_i64(get(j, "lastUpdateId"))
       /\ as_array(get(j, "bids"))
       /\ as_array(get(j, "asks"))
    THEN
        LET last_update_id == get(j, "lastUpdateId").v
            bids_array == get(j, "bids").v
            asks_array == get(j, "asks").v
            inc_msg == parse_order_book_levels(bids_array, asks_array,
                           IncMsg_create(get(j, "s").v, last_update_id + 1,
                               last_update_id + 1, 0, TRUE,
                               Len(bids_array), Len(asks_array)))
        IN Result(<<IncMsg_to_bytes(inc_msg)>>, Sent(1), <<>>)
    ELSE Nothing

BinanceSnapshotParser_parse(msg) ==
    IF msg.k # "bad" THEN parse_snapshot_event(msg) ELSE Nothing

\* a plausible slip: a missing buyer-is-maker flag read as false
parse_trade_event_default_m(j) ==
    IF /\ as_str(get(j, "s"))
       /\ as_i64(get(j, "t"))
       /\ as_str(get(j, "p"))
       /\ as_str(get(j, "q"))
       /\ as_i64(get(j, "T"))
       /\ parse_f64_ok(get(j, "p").v)
       /\ parse_f64_ok(get(j, "q").v)
    THEN
        LET price == parse_f64(get(j, "p").v)
            amount == parse_f64(get(j, "q").v)
            side == IF as_bool(get(j, "m")) /\ get(j, "m").v THEN SideS ELSE SideB
            trade_msg == TradeMsg_create(get(j, "s").v, get(j, "t").v,
                             get(j, "T").v, side, price, amount)
        IN IF price <= 0 \/ amount <= 0 THEN Nothing
           ELSE Result(<<TradeMsg_to_bytes(trade_msg)>>, Sent(1), <<>>)
    ELSE Nothing

parse_trade_event(j) ==
    IF /\ as_str(get(j, "s"))
       /\ as_i64(get(j, "t"))
       /\ as_str(get(j, "p"))
       /\ as_str(get(j, "q"))
       /\ as_i64(get(j, "T"))
       /\ as_bool(get(j, "m"))
       /\ parse_f64_ok(get(j, "p").v)
       /\ parse_f64_ok(get(j, "q").v)
    THEN
        LET price == parse_f64(get(j, "p").v)
            amount == parse_f64(get(j, "q").v)
            side == IF get(j, "m").v THEN SideS ELSE SideB
            trade_msg == TradeMsg_create(get(j, "s").v, get(j, "t").v,
                             get(j, "T").v, side, price, amount)
        IN IF price <= 0 \/ amount <= 0 THEN Nothing
           ELSE Result(<<TradeMsg_to_bytes(trade_msg)>>, Sent(1), <<>>)
    ELSE Nothing

BinanceTradeParser_parse(msg) ==
    IF msg.k # "bad" /\ as_str(get(msg, "e")) /\ get(msg, "e").v = "trade"
    THEN parse_trade_event(msg)
    ELSE Nothing

BinanceSignalParser_new(is_ipc) == IF is_ipc THEN Ipc ELSE Tcp

BinanceSignalParser_parse(source, msg) ==
    IF msg.k # "bad" /\ as_i64(get(msg, "E"))
    THEN Result(<<SignalMsg_to_bytes(SignalMsg_create(source, get(msg, "E").v))>>,
                Sent(1), <<>>)
    ELSE Nothing

-----------------------------------------------------------------------------
(* mkt_msg.rs: the messages of the kline and derivatives-metric parsers    *)
(* and of the REST paths.                                                  *)

KlineMsg_create(symbol, open_price, high_price, low_price, close_price, volume, turnover, timestamp) ==
    [symbol |-> symbol, open_price |-> open_price, high_price |-> high_price,
     low_price |-> low_price, close_price |-> close_price, volume |-> volume,
     turnover |-> turnover, timestamp |-> timestamp,
     trade_num |-> 0, taker_buy_vol |-> 0, taker_buy_quote_vol |-> 0]

set_binance_fields(m, trade_num, taker_buy_vol, taker_buy_quote_vol) ==
    [m EXCEPT !.trade_num = trade_num, !.taker_buy_vol = taker_buy_vol,
              !.taker_buy_quote_vol = taker_buy_quote_vol]

KlineMsg_to_bytes(m) ==
    <<U32(Kline), U32(len(m.symbol)), Raw(m.symbol),
      F64(m.open_price), F64(m.high_price), F64(m.low_price), F64(m.close_price),
      F64(m.volume), F64(m.turnover), I64(m.timestamp),
      I64(m.trade_num), F64(m.taker_buy_vol), F64(m.taker_buy_quote_vol)>>

PremiumIndexKlineMsg_create(symbol, open_price, high_price, low_price, close_price, timestamp) ==
    [symbol |-> symbol, open_price |-> open_price, high_price |-> high_price,
     low_price |-> low_price, close_price |-> close_price, timestamp |-> timestamp,
     open_interest |-> 0, transaction_time |-> 0]

set_open_interest(m, open_interest, time) ==
    [m EXCEPT !.open_interest = open_interest, !.transaction_time = time]

PremiumIndexKlineMsg_to_bytes(m) ==
    <<U32(PremiumIndexKline), U32(len(m.symbol)), Raw(m.symbol),
      F64(m.open_price), F64(m.high_price), F64(m.low_price), F64(m.close_price),
      I64(m.timestamp), F64(m.open_interest), I64(m.transaction_time)>>

\* account, position and global are the matched RatioMetrics of the three endpoints
TopLongShortRatioMsg_create(symbol, timestamp, account, position, global) ==
    [symbol |-> symbol, timestamp |-> timestamp,
     account |-> account, position |-> position, global |-> global,
     sum_open_interest |-> 0, sum_open_interest_value |-> 0,
     cmc_circulating_supply |-> 0, open_interest_hist_timestamp |-> 0]

set_open_interest_hist(m, oi_hist) ==
    [m EXCEPT !.sum_open_interest = oi_hist.sum_open_interest,
              !.sum_open_interest_value = oi_hist.sum_open_interest_value,
              !.cmc_circulating_supply = oi_hist.cmc_circulating_supply,
              !.open_interest_hist_timestamp = oi_hist.timestamp]

TopLongShortRatioMsg_to_bytes(m) ==
    <<U32(BinanceTopLongShortRatio), U32(len(m.symbol)), Raw(m.symbol),
      I64(m.timestamp),
      F64(m.account.long_value), F64(m.account.short_value), F64(m.account.ratio_value),
      F64(m.position.long_value), F64(m.position.short_value), F64(m.position.ratio_value),
      F64(m.global.long_value), F64(m.global.short_value), F64(m.global.ratio_value),
      I64(m.account.timestamp), I64(m.position.timestamp), I64(m.global.timestamp),
      F64(m.sum_open_interest), F64(m.sum_open_interest_value),
      F64(m.cmc_circulating_supply), I64(m.open_interest_hist_timestamp)>>

MarkPriceMsg_to_bytes(symbol, mark_price, timestamp) ==
    <<U32(MarkPrice), U32(len(symbol)), Raw(symbol), F64(mark_price), I64(timestamp)>>

IndexPriceMsg_to_bytes(symbol, index_price, timestamp) ==
    <<U32(IndexPrice), U32(len(symbol)), Raw(symbol), F64(index_price), I64(timestamp)>>

\* a plausible slip: the two times of the frame written in the other order
FundingRateMsg_to_bytes_swapped(symbol, funding_rate, next_funding_time, timestamp) ==
    <<U32(FundingRate), U32(len(symbol)), Raw(symbol),
      F64(funding_rate), I64(timestamp), I64(next_funding_time)>>

FundingRateMsg_to_bytes(symbol, funding_rate, next_funding_time, timestamp) ==
    <<U32(FundingRate), U32(len(symbol)), Raw(symbol),
      F64(funding_rate), I64(next_funding_time), I64(timestamp)>>

LiquidationMsg_to_bytes(symbol, liquidation_side, executed_qty, price, timestamp) ==
    <<U32(LiquidationOrder), U32(len(symbol)), Raw(symbol),
      U8(liquidation_side), F64(executed_qty), F64(price), I64(timestamp)>>

\* RestRequestType discriminants
PremiumIndex == 1
OpenInterest == 2
TopAccount == 3
TopPosition == 4
GlobalAccount == 5
OpenInterestHist == 6

\* RestResult::success / RestResult::failure; the detail text is kept as a token
RestResult(request, success, detail) ==
    [request |-> request, success |-> success, detail |-> detail]

\* RestSummaryEntry::write_to: request type, success flag, length-prefixed detail
RestSummaryEntry_write_to(e) ==
    <<U8(e.request), U8(IF e.success THEN 1 ELSE 0), [wire |-> "detail", wval |-> e.detail]>>

RestSummary1mMsg_to_bytes(symbol, close_tp, premium_index, open_interest) ==
    <<U32(RestSummary1m), U32(len(symbol)), Raw(symbol), I64(close_tp)>>
    \o RestSummaryEntry_write_to(premium_index)
    \o RestSummaryEntry_write_to(open_interest)

RestSummary5mMsg_to_bytes(symbol, close_tp, top_account, top_position, global_account, open_interest_hist) ==
    <<U32(RestSummary5m), U32(len(symbol)), Raw(symbol), I64(close_tp)>>
    \o RestSummaryEntry_write_to(top_account)
    \o RestSummaryEntry_write_to(top_position)
    \o RestSummaryEntry_write_to(global_account)
    \o RestSummaryEntry_write_to(open_interest_hist)

-----------------------------------------------------------------------------
(* binance_parser.rs: the kline parser and the REST task it spawns for a   *)
(* closed futures bar.                                                     *)

ONE_MINUTE_MILLIS == 60000
FIVE_MINUTE_MILLIS == 5 * ONE_MINUTE_MILLIS

is_five_minute_boundary(close_time) == close_time % FIVE_MINUTE_MILLIS = 0

RestSummaryCollector_default ==
    [r \in PremiumIndex..OpenInterestHist |-> RestResult(r, FALSE, "unexecuted")]

RestSummaryCollector_update(c, result) == [c EXCEPT ![result.request] = result]

\* the frame report_rest_summary sends for the stage ("1m" or "5m"); a request
\* with no result in the collector is reported as failed, "unexecuted"
report_rest_summary(symbol, close_time, collector, stage) ==
    IF stage = "1m"
    THEN RestSummary1mMsg_to_bytes(symbol, close_time,
             collector[PremiumIndex], collector[OpenInterest])
    ELSE RestSummary5mMsg_to_bytes(symbol, close_time,
             collector[TopAccount], collector[TopPosition],
             collector[GlobalAccount], collector[OpenInterestHist])

KlineStrs == <<"o", "h", "l", "c", "v", "q", "V", "Q">>

\* a plausible slip: the closed flag of the bar is not looked at
BinanceKlineParser_parse_any_bar(is_future, msg) ==
    LET k == get(msg, "k") IN
    IF /\ msg.k # "bad"
       /\ as_str(get(msg, "s"))
       /\ is_some(k)
       /\ \A i \in 1..Len(KlineStrs) : as_str(get(k, KlineStrs[i]))
       /\ as_i64(get(k, "t"))
       /\ as_i64(get(k, "n"))
       /\ \A i \in 1..Len(KlineStrs) : parse_f64_ok(get(k, KlineStrs[i]).v)
    THEN
        LET symbol == get(msg, "s").v
            timestamp == get(k, "t").v
            close_time == IF as_i64(get(k, "T")) THEN get(k, "T").v ELSE timestamp + 1
            kline_msg == set_binance_fields(
                KlineMsg_create(symbol,
                    parse_f64(get(k, "o").v), parse_f64(get(k, "h").v),
                    parse_f64(get(k, "l").v), parse_f64(get(k, "c").v),
                    parse_f64(get(k, "v").v), parse_f64(get(k, "q").v), timestamp),
                get(k, "n").v, parse_f64(get(k, "V").v), parse_f64(get(k, "Q").v))
        IN Result(<<KlineMsg_to_bytes(kline_msg)>>, Sent(1),
                  \* the spawned task starts with the 10 s sleep and the
                  \* premium-index request
                  IF is_future
                  THEN <<[id |-> 0, symbol |-> symbol, kline_open_tp |-> timestamp,
                          kline_close_tp |-> close_time, pc |-> "premium",
                          msg |-> PremiumIndexKlineMsg_create(symbol, 0, 0, 0, 0, 0),
                          rest_summary |-> RestSummaryCollector_default]>>
                  ELSE <<>>)
    ELSE Nothing

BinanceKlineParser_parse(is_future, msg) ==
    LET k == get(msg, "k") IN
    IF /\ msg.k # "bad"
       /\ as_str(get(msg, "s"))
       /\ is_some(k)
       /\ as_bool(get(k, "x"))
       /\ get(k, "x").v
       /\ \A i \in 1..Len(KlineStrs) : as_str(get(k, KlineStrs[i]))
       /\ as_i64(get(k, "t"))
       /\ as_i64(get(k, "n"))
       /\ \A i \in 1..Len(KlineStrs) : parse_f64_ok(get(k, KlineStrs[i]).v)
    THEN
        LET symbol == get(msg, "s").v
            timestamp == get(k, "t").v
            close_time == IF as_i64(get(k, "T")) THEN get(k, "T").v ELSE timestamp + 1
            kline_msg == set_binance_fields(
                KlineMsg_create(symbol,
                    parse_f64(get(k, "o").v), parse_f64(get(k, "h").v),
                    parse_f64(get(k, "l").v), parse_f64(get(k, "c").v),
                    parse_f64(get(k, "v").v), parse_f64(get(k, "q").v), timestamp),
                get(k, "n").v, parse_f64(get(k, "V").v), parse_f64(get(k, "Q").v))
        IN Result(<<KlineMsg_to_bytes(kline_msg)>>, Sent(1),
                  \* the spawned task starts with the 10 s sleep and the
                  \* premium-index request
                  IF is_future
                  THEN <<[id |-> 0, symbol |-> symbol, kline_open_tp |-> timestamp,
                          kline_close_tp |-> close_time, pc |-> "premium",
                          msg |-> PremiumIndexKlineMsg_create(symbol, 0, 0, 0, 0, 0),
                          rest_summary |-> RestSummaryCollector_default]>>
                  ELSE <<>>)
    ELSE Nothing

\* One premiumIndexKlines record as parse_record sees it: valid is FALSE when
\* one of its five fields is missing or not a number.
PremiumRecord(valid, open_time) ==
    [valid |-> valid, open_time |-> open_time,
     open_price |-> 1, high_price |-> 2, low_price |-> 3, close_price |-> 4]

\* A REST response: st is "request_error", "http" (non-2xx), "json" (the body
\* does not deserialize) or "ok" with the decoded body.
Response(st, body) == [st |-> st, body |-> body]

\* responses to premiumIndexKlines?limit=2 when the bar sought opens at open_time
PremiumResponses(open_time) ==
    <<Response("request_error", <<>>),
      Response("http", <<>>),
      Response("json", <<>>),
      Response("ok", <<>>),
      Response("ok", <<PremiumRecord(FALSE, open_time)>>),
      Response("ok", <<PremiumRecord(TRUE, open_time)>>),
      Response("ok", <<PremiumRecord(TRUE, open_time - ONE_MINUTE_MILLIS),
                       PremiumRecord(TRUE, open_time)>>),
      Response("ok", <<PremiumRecord(TRUE, open_time),
                       PremiumRecord(TRUE, open_time + ONE_MINUTE_MILLIS)>>),
      Response("ok", <<PremiumRecord(TRUE, open_time - 2 * ONE_MINUTE_MILLIS),
                       PremiumRecord(TRUE, open_time - ONE_MINUTE_MILLIS)>>),
      Response("ok", <<PremiumRecord(TRUE, open_time - ONE_MINUTE_MILLIS)>>),
      Response("ok", <<PremiumRecord(FALSE, open_time - ONE_MINUTE_MILLIS),
                       PremiumRecord(TRUE, open_time)>>),
      Response("ok", <<PremiumRecord(TRUE, open_time - ONE_MINUTE_MILLIS),
                       PremiumRecord(FALSE, open_time)>>)>>

\* the task fails at the premium-index or open-interest request: it records the
\* failure, reports the 1m summary with the kline close time and returns
TaskFail(t, request, detail) ==
    LET rs == RestSummaryCollector_update(t.rest_summary,
                  RestResult(request, FALSE, detail))
    IN [task |-> [t EXCEPT !.pc = "done", !.rest_summary = rs],
        out |-> <<report_rest_summary(t.symbol, t.kline_close_tp, rs, "1m")>>]

\* a plausible slip: the task gives up when no record matches the bar
TaskPremium_match_required(t, resp) ==
    IF resp.st # "ok" THEN TaskFail(t, PremiumIndex, resp.st)
    ELSE IF resp.body = <<>> THEN TaskFail(t, PremiumIndex, "empty")
    ELSE IF ~resp.body[1].valid THEN TaskFail(t, PremiumIndex, "record")
    ELSE
        LET primary == resp.body[1]
            has_secondary == Len(resp.body) >= 2 /\ resp.body[2].valid
            matched ==
                \/ has_secondary /\ resp.body[2].open_time = t.kline_open_tp
                \/ primary.open_time = t.kline_open_tp
            record ==
                IF has_secondary /\ resp.body[2].open_time = t.kline_open_tp
                THEN resp.body[2]
                ELSE primary
            rs == RestSummaryCollector_update(t.rest_summary,
                      RestResult(PremiumIndex, TRUE, "ts"))
        IN IF ~matched THEN TaskFail(t, PremiumIndex, "match")
           ELSE [task |-> [t EXCEPT !.pc = "oi", !.rest_summary = rs,
                           !.msg = PremiumIndexKlineMsg_create(t.symbol,
                                       record.open_price, record.high_price,
                                       record.low_price, record.close_price,
                                       record.open_time)],
                 out |-> <<>>]

\* lines 449-679: the premium-index request and the selection of the record
TaskPremium(t, resp) ==
    IF resp.st # "ok" THEN TaskFail(t, PremiumIndex, resp.st)
    ELSE IF resp.body = <<>> THEN TaskFail(t, PremiumIndex, "empty")
    ELSE IF ~resp.body[1].valid THEN TaskFail(t, PremiumIndex, "record")
    ELSE
        LET primary == resp.body[1]
            has_secondary == Len(resp.body) >= 2 /\ resp.body[2].valid
            matched ==
                \/ has_secondary /\ resp.body[2].open_time = t.kline_open_tp
                \/ primary.open_time = t.kline_open_tp
            record ==
                IF has_secondary /\ resp.body[2].open_time = t.kline_open_tp
                THEN resp.body[2]
                ELSE primary
            rs == RestSummaryCollector_update(t.rest_summary,
                      IF matched
                      THEN RestResult(PremiumIndex, TRUE, "ts")
                      ELSE RestResult(PremiumIndex, FALSE, "match"))
        IN [task |-> [t EXCEPT !.pc = "oi", !.rest_summary = rs,
                        !.msg = PremiumIndexKlineMsg_create(t.symbol,
                                    record.open_price, record.high_price,
                                    record.low_price, record.close_price,
                                    record.open_time)],
            out |-> <<>>]

\* the body of an openInterest response: openInterest is a JSON value (a
\* string when well formed), time a JSON value (an integer when well formed)
OpenInterestResponses(now_ms) ==
    LET OpenInterestBody(oi, time) == JObj([openInterest |-> oi, time |-> time])
    IN
    <<Response("request_error", JNull),
      Response("http", JNull),
      Response("json", JNull),
      Response("ok", OpenInterestBody(JStr("100"), JInt(now_ms))),
      Response("ok", OpenInterestBody(JStr("abc"), JInt(now_ms))),
      Response("ok", JObj([openInterest |-> JStr("100")])),
      Response("ok", OpenInterestBody(JInt(100), JInt(now_ms)))>>

\* lines 681-851: the open-interest request, the PremiumIndexKline frame and
\* the 1m summary, reported with the kline close time plus one
TaskOpenInterest(t, resp) ==
    IF resp.st # "ok" THEN TaskFail(t, OpenInterest, resp.st)
    ELSE
        LET json == resp.body
            have == as_str(get(json, "openInterest")) /\ as_i64(get(json, "time"))
            parsed == have /\ parse_f64_ok(get(json, "openInterest").v)
            msg == IF parsed
                   THEN set_open_interest(t.msg,
                            parse_f64(get(json, "openInterest").v), get(json, "time").v)
                   ELSE t.msg
            rs == RestSummaryCollector_update(t.rest_summary,
                      IF parsed THEN RestResult(OpenInterest, TRUE, "ts")
                      ELSE IF have THEN RestResult(OpenInterest, FALSE, "parse")
                      ELSE RestResult(OpenInterest, FALSE, "missing"))
            kline_close_tp == t.kline_close_tp + 1
        IN [task |-> [t EXCEPT !.pc = IF is_five_minute_boundary(kline_close_tp)
                                      THEN "five" ELSE "done",
                               !.msg = msg, !.rest_summary = rs,
                               !.kline_close_tp = kline_close_tp],
            out |-> <<PremiumIndexKlineMsg_to_bytes(msg),
                      report_rest_summary(t.symbol, kline_close_tp, rs, "1m")>>]

\* str::parse::<i64>() on the strings of the model
I64Table == ("300000" :> 300000) @@ ("300001" :> 300001) @@ ("600000" :> 600000)
\* to_i64: a JSON integer, or a string that parses as one
to_i64_ok(v) == as_i64(v) \/ (as_str(v) /\ v.v \in DOMAIN I64Table)
to_i64(v) == IF as_i64(v) THEN v.v ELSE I64Table[v.v]

\* as_f64, or a string that parses as f64 (the value in hundredths)
parse_value_ok(v) == as_i64(v) \/ (as_str(v) /\ parse_f64_ok(v.v))
parse_value(v) == IF as_i64(v) THEN 100 * v.v ELSE parse_f64(v.v)

Ok(data) == [ok |-> TRUE, v |-> data]
Err(e) == [ok |-> FALSE, v |-> e]

\* find with a fallback to the first entry when no timestamp matches
find_entry_else_first(entries, close_time) ==
    LET Matching == {i \in DOMAIN entries :
                        LET ts == get(entries[i], "timestamp") IN
                        to_i64_ok(ts) /\ (to_i64(ts) = close_time \/ to_i64(ts) = close_time + 1)}
    IN
    IF entries = <<>> THEN 0
    ELSE IF Matching = {} THEN 1
    ELSE CHOOSE i \in Matching : \A j \in Matching : i <= j

RECURSIVE find_entry(_, _)
\* entries.iter().find(timestamp is close_time or close_time + 1): the index of
\* the first such entry, 0 when there is none
find_entry(entries, close_time) ==
    IF entries = <<>> THEN 0
    ELSE LET ts == get(Head(entries), "timestamp") IN
         IF to_i64_ok(ts) /\ (to_i64(ts) = close_time \/ to_i64(ts) = close_time + 1)
         THEN 1
         ELSE LET r == find_entry(Tail(entries), close_time) IN
              IF r = 0 THEN 0 ELSE r + 1

\* binance_parser.rs, fetch_ratio_metrics from the response on
parser_fetch_ratio_metrics(resp, long_key, short_key, close_time) ==
    IF resp.st # "ok" THEN Err(resp.st)
    ELSE IF resp.body = <<>> THEN Err("EmptyResponse")
    ELSE
        LET i == find_entry(resp.body, close_time) IN
        IF i = 0 THEN Err("MatchFailure")
        ELSE
            LET entry == resp.body[i] IN
            IF ~parse_value_ok(get(entry, long_key)) THEN Err("MissingField")
            ELSE IF ~parse_value_ok(get(entry, short_key)) THEN Err("MissingField")
            ELSE IF ~parse_value_ok(get(entry, "longShortRatio")) THEN Err("MissingField")
            ELSE Ok([long_value |-> parse_value(get(entry, long_key)),
                     short_value |-> parse_value(get(entry, short_key)),
                     ratio_value |-> parse_value(get(entry, "longShortRatio")),
                     timestamp |-> IF to_i64_ok(get(entry, "timestamp"))
                                   THEN to_i64(get(entry, "timestamp"))
                                   ELSE close_time])

\* binance_parser.rs, fetch_open_interest_hist from the response on
parser_fetch_open_interest_hist(resp, close_time) ==
    IF resp.st # "ok" THEN Err(resp.st)
    ELSE IF resp.body = <<>> THEN Err("EmptyResponse")
    ELSE
        LET i == find_entry(resp.body, close_time) IN
        IF i = 0 THEN Err("MatchFailure")
        ELSE
            LET entry == resp.body[i] IN
            IF ~parse_value_ok(get(entry, "sumOpenInterest")) THEN Err("MissingField")
            ELSE IF ~parse_value_ok(get(entry, "sumOpenInterestValue"))
                 THEN Err("MissingField")
            ELSE Ok([sum_open_interest |-> parse_value(get(entry, "sumOpenInterest")),
                     sum_open_interest_value |->
                         parse_value(get(entry, "sumOpenInterestValue")),
                     cmc_circulating_supply |->
                         IF parse_value_ok(get(entry, "CMCCirculatingSupply"))
                         THEN parse_value(get(entry, "CMCCirculatingSupply"))
                         ELSE 0,
                     timestamp |-> IF to_i64_ok(get(entry, "timestamp"))
                                   THEN to_i64(get(entry, "timestamp"))
                                   ELSE close_time])

\* responses of a ratio endpoint (period=5m, limit=2) asked for close_time
RatioResponses(close_time) ==
    LET RatioEntry(ts) ==
            JObj([timestamp |-> JInt(ts), longAccount |-> JStr("2"),
                  shortAccount |-> JStr("1"), longShortRatio |-> JStr("2")])
    IN
    <<Response("request_error", <<>>),
      Response("ok", <<>>),
      Response("ok", <<RatioEntry(close_time - FIVE_MINUTE_MILLIS), RatioEntry(close_time)>>),
      Response("ok", <<RatioEntry(close_time - FIVE_MINUTE_MILLIS)>>),
      Response("ok", <<JObj([timestamp |-> JInt(close_time + 1),
                             longAccount |-> JStr("2")])>>)>>

\* responses of the openInterestHist endpoint asked for close_time
OpenInterestHistResponses(close_time) ==
    LET OpenInterestHistEntry(ts) ==
            JObj([timestamp |-> JInt(ts), sumOpenInterest |-> JStr("100"),
                  sumOpenInterestValue |-> JStr("101")])
    IN
    <<Response("http", <<>>),
      Response("ok", <<OpenInterestHistEntry(close_time)>>),
      Response("ok", <<OpenInterestHistEntry(close_time - FIVE_MINUTE_MILLIS)>>)>>

\* the collector entry of one five-minute result
FiveResult(request, res) ==
    IF res.ok THEN RestResult(request, TRUE, "ts") ELSE RestResult(request, FALSE, res.v)

\* lines 852-1037: after the 180 s sleep, the four joined requests, the
\* TopLongShortRatio frame when account, position and global are all present,
\* and the 5m summary
TaskFiveMinute(t, account_res, position_res, global_res, oi_hist_res) ==
    LET rs == RestSummaryCollector_update(
                  RestSummaryCollector_update(
                      RestSummaryCollector_update(
                          RestSummaryCollector_update(t.rest_summary,
                              FiveResult(TopAccount, account_res)),
                          FiveResult(TopPosition, position_res)),
                      FiveResult(GlobalAccount, global_res)),
                  FiveResult(OpenInterestHist, oi_hist_res))
        ratio_msg == TopLongShortRatioMsg_create(t.symbol, t.kline_close_tp,
                         account_res.v, position_res.v, global_res.v)
        ratio == IF account_res.ok /\ position_res.ok /\ global_res.ok
                 THEN <<TopLongShortRatioMsg_to_bytes(
                            IF oi_hist_res.ok
                            THEN set_open_interest_hist(ratio_msg, oi_hist_res.v)
                            ELSE ratio_msg)>>
                 ELSE <<>>
    IN [task |-> [t EXCEPT !.pc = "done", !.rest_summary = rs],
        out |-> ratio \o <<report_rest_summary(t.symbol, t.kline_close_tp, rs, "5m")>>]

-----------------------------------------------------------------------------
(* binance_parser.rs: the derivatives-metric parser.                       *)

\* the symbols the parser was built with (lowercase)
SymbolSet == {"btcusdt"}

\* a plausible slip: the symbol is not tested against the SymbolSet
parse_liquidation_event_any_symbol(j) ==
    LET order_data == get(j, "o") IN
    IF /\ is_some(order_data)
       /\ as_str(get(order_data, "s"))
       /\ as_str(get(order_data, "S"))
       /\ as_str(get(order_data, "z"))
       /\ as_str(get(order_data, "ap"))
       /\ as_i64(get(order_data, "T"))
    THEN
        LET symbol == get(order_data, "s").v
            side == get(order_data, "S").v
            quantity_str == get(order_data, "z").v
            avg_price_str == get(order_data, "ap").v
        IN
        IF ~(parse_f64_ok(quantity_str) /\ parse_f64_ok(avg_price_str)) THEN Nothing
        ELSE IF side \notin {"BUY", "SELL"} THEN Nothing
        ELSE Result(<<LiquidationMsg_to_bytes(symbol,
                          IF side = "BUY" THEN SideB ELSE SideS,
                          parse_f64(quantity_str), parse_f64(avg_price_str),
                          get(order_data, "T").v)>>,
                    Sent(1), <<>>)
    ELSE Nothing

parse_liquidation_event(j) ==
    LET order_data == get(j, "o") IN
    IF /\ is_some(order_data)
       /\ as_str(get(order_data, "s"))
       /\ as_str(get(order_data, "S"))
       /\ as_str(get(order_data, "z"))
       /\ as_str(get(order_data, "ap"))
       /\ as_i64(get(order_data, "T"))
    THEN
        LET symbol == get(order_data, "s").v
            side == get(order_data, "S").v
            quantity_str == get(order_data, "z").v
            avg_price_str == get(order_data, "ap").v
        IN
        IF to_lowercase(symbol) \notin SymbolSet THEN Nothing
        ELSE IF ~(parse_f64_ok(quantity_str) /\ parse_f64_ok(avg_price_str)) THEN Nothing
        ELSE IF side \notin {"BUY", "SELL"} THEN Nothing
        ELSE Result(<<LiquidationMsg_to_bytes(symbol,
                          IF side = "BUY" THEN SideB ELSE SideS,
                          parse_f64(quantity_str), parse_f64(avg_price_str),
                          get(order_data, "T").v)>>,
                    Sent(1), <<>>)
    ELSE Nothing

parse_single_mark_price(item) ==
    IF /\ as_str(get(item, "e"))
       /\ get(item, "e").v = "markPriceUpdate"
       /\ as_str(get(item, "s"))
       /\ as_str(get(item, "p"))
       /\ as_str(get(item, "i"))
       /\ as_str(get(item, "r"))
       /\ as_i64(get(item, "E"))
       /\ as_i64(get(item, "T"))
    THEN
        LET symbol == get(item, "s").v
            event_time == get(item, "E").v
        IN
        IF to_lowercase(symbol) \notin SymbolSet THEN Nothing
        ELSE IF ~(/\ parse_f64_ok(get(item, "p").v)
                  /\ parse_f64_ok(get(item, "i").v)
                  /\ parse_f64_ok(get(item, "r").v)) THEN Nothing
        ELSE Result(<<MarkPriceMsg_to_bytes(symbol, parse_f64(get(item, "p").v),
                          event_time),
                      IndexPriceMsg_to_bytes(symbol, parse_f64(get(item, "i").v),
                          event_time),
                      FundingRateMsg_to_bytes(symbol, parse_f64(get(item, "r").v),
                          get(item, "T").v, event_time)>>,
                    Sent(1) + Sent(1) + Sent(1), <<>>)
    ELSE Nothing

RECURSIVE parse_mark_price_array(_)
\* the loop over the array: the frames of every element, the sum of the counts
parse_mark_price_array(data_array) ==
    IF data_array = <<>> THEN Nothing
    ELSE LET first == parse_single_mark_price(Head(data_array))
             rest == parse_mark_price_array(Tail(data_array))
         IN Result(first.out \o rest.out, first.ret + rest.ret, <<>>)

BinanceDerivativesMetricsParser_parse(msg) ==
    IF msg.k = "bad" THEN Nothing
    ELSE IF as_array(msg) THEN parse_mark_price_array(msg.v)
    ELSE IF as_str(get(msg, "e"))
    THEN IF get(msg, "e").v = "forceOrder" THEN parse_liquidation_event(msg)
         ELSE IF get(msg, "e").v = "markPriceUpdate" THEN parse_single_mark_price(msg)
         ELSE Nothing
    ELSE Nothing

-----------------------------------------------------------------------------
(* The payloads the WebSocket connections deliver.                         *)

\* the object j without its field key
Drop(j, key) == JObj([x \in DOMAIN j.v \ {key} |-> j.v[x]])
\* the object j with its field key set to val
With(j, key, val) == JObj([x \in DOMAIN j.v \cup {key} |-> IF x = key THEN val ELSE j.v[x]])

LevelJson(price, amount) == JArr(<<JStr(price), JStr(amount)>>)

DepthUpdate ==
    JObj([e |-> JStr("depthUpdate"), E |-> JInt(7), T |-> JInt(8),
          s |-> JStr("BTCUSDT"), U |-> JInt(10), u |-> JInt(12), pu |-> JInt(9),
          b |-> JArr(<<LevelJson("100", "1")>>),
          a |-> JArr(<<LevelJson("101", "2")>>)])

DepthPayloads ==
    <<DepthUpdate,
      Drop(Drop(DepthUpdate, "pu"), "T"),
      With(DepthUpdate, "b", JArr(<<LevelJson("100", "1"), LevelJson("100.5", "2")>>)),
      Drop(DepthUpdate, "s"),
      With(DepthUpdate, "u", JStr("12")),
      With(DepthUpdate, "pu", JStr("9")),
      NotJson>>

SnapshotPayloads ==
    LET Snapshot ==
            JObj([s |-> JStr("BTCUSDT"), lastUpdateId |-> JInt(20),
                  bids |-> JArr(<<LevelJson("100", "1")>>),
                  asks |-> JArr(<<LevelJson("101", "2"), LevelJson("100.5", "1")>>)])
    IN  <<Snapshot, Drop(Snapshot, "lastUpdateId"), NotJson>>

Trade ==
    JObj([e |-> JStr("trade"), s |-> JStr("BTCUSDT"), t |-> JInt(5),
          p |-> JStr("100.5"), q |-> JStr("2"), T |-> JInt(9), m |-> JBool(TRUE)])

TradePayloads ==
    <<Trade,
      With(Trade, "m", JBool(FALSE)),
      With(Trade, "p", JStr("0")),
      With(Trade, "q", JStr("-1")),
      Drop(Trade, "m"),
      With(Trade, "t", JStr("5")),
      NotJson>>

SignalPayloads == <<JObj([E |-> JInt(7)]), JObj([E |-> JStr("7")]), NotJson>>

\* a kline event for the bar [t, T]; x tells whether the bar is closed
KlineEvent(t, T, x) ==
    JObj([e |-> JStr("kline"), s |-> JStr("BTCUSDT"),
          k |-> JObj([t |-> JInt(t), T |-> JInt(T), x |-> JBool(x),
                      o |-> JStr("100"), h |-> JStr("101"), l |-> JStr("100"),
                      c |-> JStr("100.5"), v |-> JStr("2"), q |-> JStr("1"),
                      n |-> JInt(3), V |-> JStr("1"), Q |-> JStr("1")])])

KlinePayloads ==
    <<KlineEvent(4 * ONE_MINUTE_MILLIS, FIVE_MINUTE_MILLIS - 1, TRUE),
      KlineEvent(ONE_MINUTE_MILLIS, 2 * ONE_MINUTE_MILLIS - 1, TRUE),
      KlineEvent(ONE_MINUTE_MILLIS, 2 * ONE_MINUTE_MILLIS - 1, FALSE),
      With(KlineEvent(ONE_MINUTE_MILLIS, 2 * ONE_MINUTE_MILLIS - 1, TRUE), "k",
           Drop(KlineEvent(ONE_MINUTE_MILLIS, 2 * ONE_MINUTE_MILLIS - 1, TRUE).v.k, "o")),
      With(KlineEvent(ONE_MINUTE_MILLIS, 2 * ONE_MINUTE_MILLIS - 1, TRUE), "k",
           Drop(KlineEvent(ONE_MINUTE_MILLIS, 2 * ONE_MINUTE_MILLIS - 1, TRUE).v.k, "x")),
      NotJson>>

MarkPriceUpdate(symbol) ==
    JObj([e |-> JStr("markPriceUpdate"), s |-> JStr(symbol), p |-> JStr("100"),
          i |-> JStr("101"), r |-> JStr("0.01"), E |-> JInt(7), T |-> JInt(9)])

ForceOrder(side) ==
    JObj([e |-> JStr("forceOrder"),
          o |-> JObj([s |-> JStr("BTCUSDT"), S |-> JStr(side), z |-> JStr("2"),
                      ap |-> JStr("100"), T |-> JInt(9)])])

MetricsPayloads ==
    <<MarkPriceUpdate("BTCUSDT"),
      Drop(MarkPriceUpdate("BTCUSDT"), "p"),
      JArr(<<MarkPriceUpdate("BTCUSDT"), MarkPriceUpdate("ETHUSDT")>>),
      JArr(<<Drop(MarkPriceUpdate("BTCUSDT"), "r"), MarkPriceUpdate("BTCUSDT")>>),
      ForceOrder("BUY"),
      ForceOrder("SELL"),
      ForceOrder("HOLD"),
      Drop(ForceOrder("BUY"), "o"),
      JArr(<<With(MarkPriceUpdate("BTCUSDT"), "E", JStr("7"))>>),
      MarkPriceUpdate("ETHUSDT"),
      With(ForceOrder("BUY"), "o", With(ForceOrder("BUY").v.o, "s", JStr("ETHUSDT"))),
      JArr(<<MarkPriceUpdate("BTCUSDT"), MarkPriceUpdate("BTCUSDT")>>),
      NotJson>>

-----------------------------------------------------------------------------
(* The specification of the parsers: the WebSocket connections call        *)
(* Parser::parse with the payloads they receive, and the REST tasks the    *)
(* futures kline parser spawned run concurrently with the later calls.     *)

\* before the first call
NoCall == [parser |-> "none", flag |-> FALSE, msg |-> NotJson, ret |-> 0, id |-> 0]

\* no parse call is made
ParsersIdle ==
    /\ calls = 0
    /\ last = NoCall
    /\ tasks = <<>>

\* neither loop of rest_fetcher.rs runs
RestIdle ==
    /\ mode = "off"
    /\ now = 0
    /\ pc = "off"
    /\ tick_close_time = 0
    /\ pending_five_min = [some |-> FALSE]
    /\ fetcher_symbols = <<>>
    /\ refresh_res = [some |-> FALSE]
    /\ bapi_cache = [borrow |-> [some |-> FALSE], inventory |-> [some |-> FALSE]]
    /\ ticks = 0
    /\ passes = <<>>
    /\ one_min_result = [some |-> FALSE]
    /\ five_min_result = [some |-> FALSE]

\* no single request is followed
FetchIdle ==
    /\ fetch_req = [endpoint |-> "none"]
    /\ fetch_res = [ok |-> FALSE, v |-> "none"]
    /\ fetch_pc = "off"

\* Result<WsStream, Error> of connect: the stream of connection conn, or the error
ConnOk(conn) == [ok |-> TRUE, v |-> "WsStream", conn |-> conn]
ConnErr(e) == [ok |-> FALSE, v |-> e, conn |-> 0]

\* WsConnector::connect is not followed
ConnectIdle ==
    /\ conn_url = [valid |-> FALSE, sub_msg |-> "none"]
    /\ conn_pc = "off"
    /\ conn_retry = 0
    /\ conn_log = <<>>
    /\ conn_res = ConnErr("none")

\* fetch_with_retry is not followed
RetryIdle ==
    /\ retry_label = "none"
    /\ retry_pc = "off"
    /\ attempt = 0
    /\ last_error = [variant |-> "none", code |-> 0, detail |-> ""]
    /\ retry_log = <<>>
    /\ retry_res = [ok |-> FALSE, v |-> "none"]

\* the channels of Proxy
Channels == {"inc", "trade"}

\* Proxy does not run and no session shares its channels
ProxyIdle ==
    /\ chan = [c \in Channels |-> [buf |-> <<>>, sent |-> 0]]
    /\ published = [c \in Channels |-> <<>>]
    /\ sessions = <<>>
    /\ rx_next = [c \in Channels |-> 0]
    /\ proxy_count = [c \in Channels |-> 0]
    /\ forwarded = <<>>
    /\ default_parsers = {}
    /\ shutdown = FALSE
    /\ shutdown_unseen = FALSE
    /\ dropped = {}
    /\ proxy_pc = "off"

Init ==
    /\ bus = <<>>
    /\ ConnectIdle
    /\ RetryIdle
    /\ join_slots = <<>>
    /\ sent = 0
    /\ calls = 0
    /\ last = NoCall
    /\ tasks = <<>>
    /\ RestIdle
    /\ FetchIdle
    /\ ProxyIdle

\* one call of Parser::parse, with the result r the parser computes for msg
Parse(parser, flag, msg, r) ==
    /\ calls < MaxCalls
    /\ calls' = calls + 1
    /\ bus' = Publish(bus, "ws", calls + 1, r.out)
    /\ sent' = sent + Sent(Len(r.out))
    /\ last' = [parser |-> parser, flag |-> flag, msg |-> msg, ret |-> r.ret,
                id |-> calls + 1]
    /\ tasks' = tasks \o [i \in 1..Len(r.spawn) |-> [r.spawn[i] EXCEPT !.id = calls + 1]]
    /\ UNCHANGED <<join_slots, retryVars, connVars, proxyVars, restVars, fetchVars>>

ParseInc ==
    \E is_futures \in BOOLEAN, i \in 1..Len(DepthPayloads) :
        Parse("inc", is_futures, DepthPayloads[i],
              BinanceIncParser_parse(is_futures, DepthPayloads[i]))

ParseSnapshot ==
    \E i \in 1..Len(SnapshotPayloads) :
        Parse("snapshot", FALSE, SnapshotPayloads[i],
              BinanceSnapshotParser_parse(SnapshotPayloads[i]))

ParseTrade ==
    \E i \in 1..Len(TradePayloads) :
        Parse("trade", FALSE, TradePayloads[i],
              BinanceTradeParser_parse(TradePayloads[i]))

ParseSignal ==
    \E is_ipc \in BOOLEAN, i \in 1..Len(SignalPayloads) :
        Parse("signal", is_ipc, SignalPayloads[i],
              BinanceSignalParser_parse(BinanceSignalParser_new(is_ipc),
                                        SignalPayloads[i]))

ParseKline ==
    \E is_future \in BOOLEAN, i \in 1..Len(KlinePayloads) :
        Parse("kline", is_future, KlinePayloads[i],
              BinanceKlineParser_parse(is_future, KlinePayloads[i]))

ParseMetrics ==
    \E i \in 1..Len(MetricsPayloads) :
        Parse("metrics", FALSE, MetricsPayloads[i],
              BinanceDerivativesMetricsParser_parse(MetricsPayloads[i]))

\* one step of task i with the result r of the step: a task that returned is
\* gone
TaskStep(i, r) ==
    /\ bus' = Publish(bus, "task", tasks[i].id, r.out)
    /\ sent' = sent + Sent(Len(r.out))
    /\ tasks' = IF r.task.pc = "done"
                THEN SubSeq(tasks, 1, i - 1) \o SubSeq(tasks, i + 1, Len(tasks))
                ELSE [tasks EXCEPT ![i] = r.task]
    /\ UNCHANGED <<join_slots, retryVars, connVars, proxyVars, calls, last, restVars, fetchVars>>

\* The tasks are tried with some of the responses of each endpoint.
RestTaskPremium ==
    \E i \in 1..Len(tasks), c \in {1, 4, 6, 9} :
        /\ tasks[i].pc = "premium"
        /\ TaskStep(i, TaskPremium(tasks[i],
                           PremiumResponses(tasks[i].kline_open_tp)[c]))

RestTaskOpenInterest ==
    \E i \in 1..Len(tasks), c \in {2, 4, 6} :
        /\ tasks[i].pc = "oi"
        /\ TaskStep(i, TaskOpenInterest(tasks[i],
                           OpenInterestResponses(tasks[i].kline_close_tp)[c]))

RestTaskFiveMinute ==
    \E i \in 1..Len(tasks), a \in {1, 3}, p \in {1, 3}, g \in {1, 3}, h \in 1..2 :
        /\ tasks[i].pc = "five"
        /\ LET close_time == tasks[i].kline_close_tp IN
           TaskStep(i, TaskFiveMinute(tasks[i],
               parser_fetch_ratio_metrics(RatioResponses(close_time)[a],
                   "longAccount", "shortAccount", close_time),
               parser_fetch_ratio_metrics(RatioResponses(close_time)[p],
                   "longAccount", "shortAccount", close_time),
               parser_fetch_ratio_metrics(RatioResponses(close_time)[g],
                   "longAccount", "shortAccount", close_time),
               parser_fetch_open_interest_hist(
                   OpenInterestHistResponses(close_time)[h], close_time)))

Next ==
    \/ ParseInc
    \/ ParseSnapshot
    \/ ParseTrade
    \/ ParseSignal
    \/ ParseKline
    \/ ParseMetrics
    \/ RestTaskPremium
    \/ RestTaskOpenInterest
    \/ RestTaskFiveMinute

Spec == Init /\ [][Next]_vars

-----------------------------------------------------------------------------
(* rest_fetcher.rs: the requests of the wall-clock REST fetcher, from the  *)
(* response on (fetch_with_retry has returned the body or the error).      *)

fetch_premium_index(resp, symbol, close_time) ==
    IF resp.st # "ok" THEN Err(resp.st)
    ELSE IF resp.body = <<>> THEN Err("EmptyResponse")
    ELSE
        LET records == resp.body
            expected_open_time == close_time - ONE_MINUTE_MILLIS
        IN
        IF ~records[1].valid THEN Err("MissingField")
        ELSE
            LET primary == records[1]
                has_secondary == Len(records) >= 2 /\ records[2].valid
                selected ==
                    IF has_secondary
                    THEN IF records[2].open_time = expected_open_time THEN records[2]
                         ELSE IF primary.open_time = expected_open_time THEN primary
                         ELSE primary
                    ELSE IF primary.open_time = expected_open_time THEN primary
                    ELSE primary
            IN Ok([symbol |-> symbol, open_time |-> selected.open_time,
                   open_price |-> selected.open_price,
                   high_price |-> selected.high_price,
                   low_price |-> selected.low_price,
                   close_price |-> selected.close_price])

fetch_open_interest(resp, symbol) ==
    IF resp.st # "ok" THEN Err(resp.st)
    ELSE
        LET json == resp.body IN
        IF ~as_str(get(json, "openInterest")) THEN Err("MissingField openInterest")
        ELSE IF ~as_i64(get(json, "time")) THEN Err("MissingField time")
        ELSE IF ~parse_f64_ok(get(json, "openInterest").v)
             THEN Err("MissingField openInterest parse")
        ELSE Ok([symbol |-> symbol,
                 open_interest |-> parse_f64(get(json, "openInterest").v),
                 timestamp |-> get(json, "time").v])

fetch_ratio_metrics(resp, symbol, long_key, short_key, close_time) ==
    IF resp.st # "ok" THEN Err(resp.st)
    ELSE IF resp.body = <<>> THEN Err("EmptyResponse")
    ELSE
        LET i == find_entry(resp.body, close_time) IN
        IF i = 0 THEN Err("MatchFailure")
        ELSE
            LET entry == resp.body[i] IN
            IF ~parse_value_ok(get(entry, long_key)) THEN Err("MissingField")
            ELSE IF ~parse_value_ok(get(entry, short_key)) THEN Err("MissingField")
            ELSE IF ~parse_value_ok(get(entry, "longShortRatio")) THEN Err("MissingField")
            ELSE Ok([symbol |-> symbol,
                     long_value |-> parse_value(get(entry, long_key)),
                     short_value |-> parse_value(get(entry, short_key)),
                     ratio_value |-> parse_value(get(entry, "longShortRatio")),
                     timestamp |-> IF to_i64_ok(get(entry, "timestamp"))
                                   THEN to_i64(get(entry, "timestamp"))
                                   ELSE close_time])

fetch_open_interest_hist(resp, symbol, close_time) ==
    IF resp.st # "ok" THEN Err(resp.st)
    ELSE IF resp.body = <<>> THEN Err("EmptyResponse")
    ELSE
        LET i == find_entry(resp.body, close_time) IN
        IF i = 0 THEN Err("MatchFailure")
        ELSE
            LET entry == resp.body[i] IN
            IF ~parse_value_ok(get(entry, "sumOpenInterest")) THEN Err("MissingField")
            ELSE IF ~parse_value_ok(get(entry, "sumOpenInterestValue"))
                 THEN Err("MissingField")
            ELSE Ok([symbol |-> symbol,
                     sum_open_interest |-> parse_value(get(entry, "sumOpenInterest")),
                     sum_open_interest_value |->
                         parse_value(get(entry, "sumOpenInterestValue")),
                     cmc_circulating_supply |->
                         IF parse_value_ok(get(entry, "CMCCirculatingSupply"))
                         THEN parse_value(get(entry, "CMCCirculatingSupply"))
                         ELSE 0,
                     timestamp |-> IF to_i64_ok(get(entry, "timestamp"))
                                   THEN to_i64(get(entry, "timestamp"))
                                   ELSE close_time])

RECURSIVE MapGet(_, _)
\* HashMap::get(symbol) after inserting the Ok data of the results in order:
\* the last Ok result of the symbol, or an Err when there is none
MapGet(results, symbol) ==
    IF results = <<>> THEN Err("None")
    ELSE LET r == results[Len(results)] IN
         IF r.ok /\ r.v.symbol = symbol THEN r
         ELSE MapGet(SubSeq(results, 1, Len(results) - 1), symbol)

RECURSIVE OneMinuteFrames(_, _)
\* the loop of send_one_minute_messages over result.premium_index
OneMinuteFrames(premium_index, open_interest) ==
    IF premium_index = <<>> THEN <<>>
    ELSE LET r == Head(premium_index)
             rest == OneMinuteFrames(Tail(premium_index), open_interest)
         IN IF ~r.ok THEN rest
            ELSE LET pi_data == r.v
                     msg == PremiumIndexKlineMsg_create(pi_data.symbol,
                                pi_data.open_price, pi_data.high_price,
                                pi_data.low_price, pi_data.close_price,
                                pi_data.open_time)
                     oi == MapGet(open_interest, pi_data.symbol)
                 IN <<PremiumIndexKlineMsg_to_bytes(
                        IF oi.ok
                        THEN set_open_interest(msg, oi.v.open_interest, oi.v.timestamp)
                        ELSE msg)>> \o rest

\* a plausible slip: a symbol without open interest gets no frame
send_one_minute_messages_needs_oi(result) ==
    OneMinuteFrames(
        SelectSeq(result.premium_index,
                  LAMBDA r : r.ok /\ MapGet(result.open_interest, r.v.symbol).ok),
        result.open_interest)

\* the frames send_one_minute_messages sends, in order
send_one_minute_messages(result) ==
    OneMinuteFrames(result.premium_index, result.open_interest)

\* the frame of BarClose1mMsg: the tag (1020 here) and the close time
BarClose1mMsg_to_bytes(close_time) == <<U32(1020), I64(close_time)>>

\* the frame of BinanceMktStatusMsg: the tag (1021 here), the period, the
\* number of assets and the encoded status
BinanceMktStatusMsg_to_bytes(period, info_count, payload) ==
    <<U32(1021), I64(period), I64(info_count), Raw(payload)>>

\* Times are counted from PERIOD_INIT_TP_MS (1704067200000, a minute and a
\* five-minute boundary), so that they fit the integers of the checker.
PERIOD_INIT_TP_MS == 0
PERIOD_BASIC_MS == 3000
calc_period(tp_ms) ==
    IF tp_ms <= PERIOD_INIT_TP_MS THEN 0
    ELSE (tp_ms - PERIOD_INIT_TP_MS) \div PERIOD_BASIC_MS

\* A timestamp of a status response is kept with its unit, as the numbers
\* themselves do not fit the integers of the checker: Millis(t) stands for
\* PERIOD_INIT_TP_MS + t, a value of at least 10^12, and Seconds(t) for
\* PERIOD_INIT_TP_MS / 1000 + t, a positive value below 10^12. A timestamp at
\* or below 0 is not drawn.
Millis(t) == [secs |-> FALSE, t |-> t]
Seconds(t) == [secs |-> TRUE, t |-> t]

\* normalize_timestamp_millis: a positive value below 10^12 is taken for
\* seconds and multiplied by 1000; the result is in milliseconds from
\* PERIOD_INIT_TP_MS
normalize_timestamp_millis(ts) == IF ts.secs THEN 1000 * ts.t ELSE ts.t

None == [some |-> FALSE]
Some(x) == [some |-> TRUE, val |-> x]

\* BinanceMktStatusCache::default()
BinanceMktStatusCache_default == [borrow |-> None, inventory |-> None]

\* a plausible slip: the response replaces the entry whatever its time
update_bapi_borrow_cache_any_time(cache, body) ==
    IF ~body.parse_ok THEN cache
    ELSE [cache EXCEPT !.borrow = Some([time |-> normalize_timestamp_millis(body.time),
                                        assets |-> body.assets])]

\* body: parse_ok tells whether the text deserializes; time is
\* data.calculation_time and assets the assets of data.coins
update_bapi_borrow_cache(cache, body) ==
    IF ~body.parse_ok THEN cache
    ELSE LET new_time == normalize_timestamp_millis(body.time) IN
         IF cache.borrow.some /\ new_time < cache.borrow.val.time THEN cache
         ELSE [cache EXCEPT !.borrow = Some([time |-> new_time, assets |-> body.assets])]

\* body: time is data.update_time and assets the keys of data.assets
update_sapi_inventory_cache(cache, body) ==
    IF ~body.parse_ok THEN cache
    ELSE LET new_time == normalize_timestamp_millis(body.time) IN
         IF cache.inventory.some /\ new_time < cache.inventory.val.time THEN cache
         ELSE [cache EXCEPT !.inventory = Some([time |-> new_time, assets |-> body.assets])]

\* the encoded BinanceMktStatus is kept as its fields; borrow_statuses as the
\* set of assets of the merged map
build_binance_mkt_status_payload(borrow_resp, inventory_resp, period) ==
    LET status_map == borrow_resp.assets \cup inventory_resp.assets IN
    [period |-> period,
     info_count |-> Cardinality(status_map),
     payload |-> [last_calculation_time |->
                      IF borrow_resp.time >= inventory_resp.time
                      THEN borrow_resp.time ELSE inventory_resp.time,
                  borrow_statuses |-> status_map,
                  period |-> period,
                  last_update_time |-> inventory_resp.time]]

\* the cache after send_binance_mkt_status_message
MktStatusCacheAfter(result, cache) ==
    LET c1 == IF result.bapi_borrow_repay.ok
              THEN update_bapi_borrow_cache(cache, result.bapi_borrow_repay.v)
              ELSE cache
    IN IF result.bapi_available_inventory.ok
       THEN update_sapi_inventory_cache(c1, result.bapi_available_inventory.v)
       ELSE c1

\* a plausible slip: no frame in a tick one of whose status requests failed
send_binance_mkt_status_message_if_fresh(result, cache) ==
    LET c == MktStatusCacheAfter(result, cache) IN
    IF /\ c.borrow.some /\ c.inventory.some
       /\ result.bapi_borrow_repay.ok /\ result.bapi_available_inventory.ok
    THEN LET payload == build_binance_mkt_status_payload(c.borrow.val, c.inventory.val,
                            calc_period(result.close_time))
         IN <<BinanceMktStatusMsg_to_bytes(payload.period, payload.info_count,
                                           payload.payload)>>
    ELSE <<>>

\* the frames send_binance_mkt_status_message sends
send_binance_mkt_status_message(result, cache) ==
    LET c == MktStatusCacheAfter(result, cache) IN
    IF c.borrow.some /\ c.inventory.some
    THEN LET payload == build_binance_mkt_status_payload(c.borrow.val, c.inventory.val,
                            calc_period(result.close_time))
         IN <<BinanceMktStatusMsg_to_bytes(payload.period, payload.info_count,
                                           payload.payload)>>
    ELSE <<>>

\* the orders in which all_symbols, the HashSet of the symbols of the Ok
\* results, can be iterated
Orders(results) ==
    LET S == {results[i].v.symbol : i \in {j \in DOMAIN results : results[j].ok}} IN
    {o \in [1..Cardinality(S) -> S] : \A i, j \in DOMAIN o : i # j => o[i] # o[j]}

RECURSIVE send_five_minute_messages_any_global(_, _)
\* a plausible slip: the global ratio is not required
send_five_minute_messages_any_global(result, order) ==
    IF order = <<>> THEN <<>>
    ELSE LET symbol == Head(order)
             account == MapGet(result.top_account, symbol)
             position == MapGet(result.top_position, symbol)
             global == MapGet(result.global_account, symbol)
             oi_hist == MapGet(result.open_interest_hist, symbol)
             rest == send_five_minute_messages_any_global(result, Tail(order))
         IN IF account.ok /\ position.ok
            THEN LET msg == TopLongShortRatioMsg_create(symbol, result.close_time,
                                account.v, position.v,
                                IF global.ok THEN global.v ELSE account.v)
                 IN <<TopLongShortRatioMsg_to_bytes(
                        IF oi_hist.ok THEN set_open_interest_hist(msg, oi_hist.v)
                        ELSE msg)>> \o rest
            ELSE rest

RECURSIVE send_five_minute_messages(_, _)
\* the frames send_five_minute_messages sends when the set all_symbols is
\* iterated in the given order
send_five_minute_messages(result, order) ==
    IF order = <<>> THEN <<>>
    ELSE LET symbol == Head(order)
             account == MapGet(result.top_account, symbol)
             position == MapGet(result.top_position, symbol)
             global == MapGet(result.global_account, symbol)
             oi_hist == MapGet(result.open_interest_hist, symbol)
             rest == send_five_minute_messages(result, Tail(order))
         IN IF account.ok /\ position.ok /\ global.ok
            THEN LET msg == TopLongShortRatioMsg_create(symbol, result.close_time,
                                account.v, position.v, global.v)
                 IN <<TopLongShortRatioMsg_to_bytes(
                        IF oi_hist.ok THEN set_open_interest_hist(msg, oi_hist.v)
                        ELSE msg)>> \o rest
            ELSE rest

\* the results of the requests of a symbol list, one slot per symbol in
\* order: the data, or the symbol with the error
Slots(symbols, results) ==
    [i \in DOMAIN symbols |->
        IF results[i].ok THEN results[i] ELSE Err(<<symbols[i], results[i].v>>)]

\* BinanceRestFetcher::fetch_one_minute from the responses on: premium and oi
\* give the response of each symbol of the list, bapi and sapi are the bodies
\* (or the errors) of the two market-status requests
fetch_one_minute(symbols, close_time, premium, oi, bapi, sapi) ==
    [close_time |-> close_time,
     premium_index |->
        Slots(symbols, [i \in DOMAIN symbols |->
                            fetch_premium_index(premium[i], symbols[i], close_time)]),
     open_interest |->
        Slots(symbols, [i \in DOMAIN symbols |-> fetch_open_interest(oi[i], symbols[i])]),
     bapi_borrow_repay |-> bapi,
     bapi_available_inventory |-> sapi]

\* BinanceRestFetcher::fetch_five_minute from the responses on
fetch_five_minute(symbols, close_time, ta, tp, ga, oh) ==
    [close_time |-> close_time,
     top_account |->
        Slots(symbols, [i \in DOMAIN symbols |->
            fetch_ratio_metrics(ta[i], symbols[i], "longAccount", "shortAccount",
                                close_time)]),
     top_position |->
        Slots(symbols, [i \in DOMAIN symbols |->
            fetch_ratio_metrics(tp[i], symbols[i], "longAccount", "shortAccount",
                                close_time)]),
     global_account |->
        Slots(symbols, [i \in DOMAIN symbols |->
            fetch_ratio_metrics(ga[i], symbols[i], "longAccount", "shortAccount",
                                close_time)]),
     open_interest_hist |->
        Slots(symbols, [i \in DOMAIN symbols |->
            fetch_open_interest_hist(oh[i], symbols[i], close_time)])]

\* a plausible slip: the boundary at or after total_millis
next_minute_boundary_ceil(total_millis) ==
    ((total_millis + ONE_MINUTE_MILLIS - 1) \div ONE_MINUTE_MILLIS) * ONE_MINUTE_MILLIS

\* next_minute_boundary: the close time of the tick that follows total_millis
next_minute_boundary(total_millis) ==
    ((total_millis \div ONE_MINUTE_MILLIS) + 1) * ONE_MINUTE_MILLIS

-----------------------------------------------------------------------------
(* SpecFetch: one request of the REST fetcher, from its response to the    *)
(* value the fetch function returns.                                       *)

\* close times the request is made for
FetchCloseTimes == {5 * ONE_MINUTE_MILLIS, 6 * ONE_MINUTE_MILLIS}

\* an entry of a ratio or openInterestHist response (period=5m); value is its
\* long value and its sumOpenInterest
HistEntry(timestamp, value) ==
    JObj([timestamp |-> timestamp, longAccount |-> JStr(value),
          shortAccount |-> JStr("1"), longShortRatio |-> JStr("2"),
          sumOpenInterest |-> JStr(value), sumOpenInterestValue |-> JStr("101")])

\* the entries a response asked for close_time is made of: of the bar before,
\* of close_time, of close_time + 1 as a number and as a string, without a
\* timestamp, and of close_time without its values
HistEntries(close_time) ==
    <<HistEntry(JInt(close_time - FIVE_MINUTE_MILLIS), "100"),
      HistEntry(JInt(close_time), "1"),
      HistEntry(JInt(close_time + 1), "2"),
      HistEntry(JStr("300001"), "101"),
      JObj([longAccount |-> JStr("100.5"), shortAccount |-> JStr("1"),
            longShortRatio |-> JStr("2"), sumOpenInterest |-> JStr("100.5"),
            sumOpenInterestValue |-> JStr("101")]),
      JObj([timestamp |-> JInt(close_time)])>>

\* responses with limit=2: an error, or an array of at most two entries
HistResponses(close_time) ==
    {Response("request_error", <<>>), Response("json", <<>>), Response("ok", <<>>)}
    \cup {Response("ok", <<HistEntries(close_time)[i]>>) :
              i \in DOMAIN HistEntries(close_time)}
    \cup {Response("ok", <<HistEntries(close_time)[i], HistEntries(close_time)[j]>>) :
              i \in DOMAIN HistEntries(close_time), j \in DOMAIN HistEntries(close_time)}

\* responses to premiumIndexKlines?limit=2: an error, or at most two records,
\* each valid or not and opening 0 to 3 minutes before ct
PremiumFetchResponses(ct) ==
    LET records == {PremiumRecord(v, ct - k * ONE_MINUTE_MILLIS) : v \in BOOLEAN, k \in 0..3} IN
    {Response(st, <<>>) : st \in {"request_error", "http", "json", "ok"}}
        \cup {Response("ok", <<r>>) : r \in records}
        \cup {Response("ok", <<r1, r2>>) : r1 \in records, r2 \in records}

\* wall-clock times, in milliseconds, at which next_minute_boundary is called:
\* on a minute boundary, 1 ms before and after it, and in the middle of a
\* minute, for minutes 0 to 10
BoundaryCallTimes ==
    {m * ONE_MINUTE_MILLIS + d : m \in 0..10, d \in {0, 1, 30000, ONE_MINUTE_MILLIS - 1}}

InitFetch ==
    /\ bus = <<>>
    /\ ConnectIdle
    /\ RetryIdle
    /\ join_slots = <<>>
    /\ sent = 0
    /\ ParsersIdle
    /\ RestIdle
    /\ ProxyIdle
    /\ fetch_pc = "call"
    /\ fetch_res = [ok |-> FALSE, v |-> "none"]
    /\ \/ \E ct \in FetchCloseTimes :
            fetch_req \in {[endpoint |-> "premiumIndexKlines", symbol |-> "BTCUSDT",
                             close_time |-> ct, resp |-> r] :
                              r \in PremiumFetchResponses(ct)}
       \/ \E ct \in FetchCloseTimes, i \in 1..Len(OpenInterestResponses(0)) :
            fetch_req = [endpoint |-> "openInterest", symbol |-> "BTCUSDT",
                         close_time |-> ct, resp |-> OpenInterestResponses(ct)[i]]
       \* a five-minute pass: per symbol the numbers of its top-account,
       \* top-position, global-account and open-interest-hist responses
       \/ \E l \in {<<"BTCUSDT">>, <<"BTCUSDT", "ETHUSDT">>, <<"BTCUSDT", "BTCUSDT">>} :
            fetch_req \in {[endpoint |-> "fiveMinute", symbols |-> l,
                             close_time |-> FIVE_MINUTE_MILLIS, answers |-> a] :
                              a \in [DOMAIN l -> {<<ta, tp, ga, oh>> :
                                          ta \in {1, 3}, tp \in {2, 3},
                                          ga \in {3, 4}, oh \in {1, 2}}]}
       \/ fetch_req \in {[endpoint |-> "nextMinuteBoundary", total_millis |-> t] :
                            t \in BoundaryCallTimes}
       \/ fetch_req \in {[endpoint |-> e, symbol |-> "BTCUSDT",
                          close_time |-> FIVE_MINUTE_MILLIS, resp |-> r] :
                            e \in {"topLongShortAccountRatio", "openInterestHist"},
                            r \in HistResponses(FIVE_MINUTE_MILLIS)}

FetchPremiumIndex ==
    /\ fetch_pc = "call"
    /\ fetch_req.endpoint = "premiumIndexKlines"
    /\ fetch_res' = fetch_premium_index(fetch_req.resp, fetch_req.symbol,
                                        fetch_req.close_time)
    /\ fetch_pc' = "done"
    /\ UNCHANGED <<join_slots, retryVars, connVars, proxyVars, bus, sent, parserVars, restVars, fetch_req>>

FetchOpenInterest ==
    /\ fetch_pc = "call"
    /\ fetch_req.endpoint = "openInterest"
    /\ fetch_res' = fetch_open_interest(fetch_req.resp, fetch_req.symbol)
    /\ fetch_pc' = "done"
    /\ UNCHANGED <<join_slots, retryVars, connVars, proxyVars, bus, sent, parserVars, restVars, fetch_req>>

\* fetch_five_minute and send_five_minute_messages for the request
FetchFiveMinute ==
    /\ fetch_pc = "call"
    /\ fetch_req.endpoint = "fiveMinute"
    /\ LET l == fetch_req.symbols
           ct == fetch_req.close_time
           a == fetch_req.answers
           result == fetch_five_minute(l, ct,
               [i \in DOMAIN l |-> RatioResponses(ct)[a[i][1]]],
               [i \in DOMAIN l |-> RatioResponses(ct)[a[i][2]]],
               [i \in DOMAIN l |-> RatioResponses(ct)[a[i][3]]],
               [i \in DOMAIN l |-> OpenInterestHistResponses(ct)[a[i][4]]])
       IN \E order \in Orders(result.top_account) :
           LET frames == send_five_minute_messages(result, order) IN
           /\ bus' = Publish(bus, "rest", ct, frames)
           /\ sent' = sent + Sent(Len(frames))
           /\ fetch_res' = Ok(result)
    /\ fetch_pc' = "done"
    /\ UNCHANGED <<join_slots, retryVars, connVars, proxyVars, parserVars, restVars, fetch_req>>

\* the head of a tick: next_minute_boundary() at the wall-clock time of the
\* request and the test of its close_time with is_five_minute_boundary
FetchNextMinuteBoundary ==
    /\ fetch_pc = "call"
    /\ fetch_req.endpoint = "nextMinuteBoundary"
    /\ LET close_time == next_minute_boundary(fetch_req.total_millis) IN
       fetch_res' = Ok([close_time |-> close_time,
                        wait_millis |-> close_time - fetch_req.total_millis,
                        five_minute |-> is_five_minute_boundary(close_time)])
    /\ fetch_pc' = "done"
    /\ UNCHANGED <<join_slots, retryVars, connVars, proxyVars, bus, sent, parserVars, restVars, fetch_req>>

FetchRatioMetrics ==
    /\ fetch_pc = "call"
    /\ fetch_req.endpoint = "topLongShortAccountRatio"
    /\ fetch_res' = fetch_ratio_metrics(fetch_req.resp, fetch_req.symbol,
                                        "longAccount", "shortAccount",
                                        fetch_req.close_time)
    /\ fetch_pc' = "done"
    /\ UNCHANGED <<join_slots, retryVars, connVars, proxyVars, bus, sent, parserVars, restVars, fetch_req>>

FetchOpenInterestHist ==
    /\ fetch_pc = "call"
    /\ fetch_req.endpoint = "openInterestHist"
    /\ fetch_res' = fetch_open_interest_hist(fetch_req.resp, fetch_req.symbol,
                                             fetch_req.close_time)
    /\ fetch_pc' = "done"
    /\ UNCHANGED <<join_slots, retryVars, connVars, proxyVars, bus, sent, parserVars, restVars, fetch_req>>

NextFetch ==
    \/ FetchNextMinuteBoundary
    \/ FetchRatioMetrics
    \/ FetchOpenInterestHist
    \/ FetchPremiumIndex
    \/ FetchOpenInterest
    \/ FetchFiveMinute

SpecFetch == InitFetch /\ [][NextFetch]_vars

-----------------------------------------------------------------------------
(* SpecRest: the loop of run_rest_fetcher_with_sender, or the loop of      *)
(* run_bar_close_timer, from one await point to the next.  The process     *)
(* runs one of the two.  A request takes at most its timeouts, so a tick   *)
(* ends within its minute.                                                 *)

REQUEST_DELAY_MS == 1000
FIVE_MIN_REQUEST_DELAY_SECS == 180

\* what fetch_futures_symbols returns at a refresh
RefreshResults ==
    <<Err("request_error"), Ok(<<"BTCUSDT", "ETHUSDT">>)>>
\* milliseconds refresh_symbols takes (its client times out after 10 s)
\* milliseconds a fan-out takes (a request is tried twice, 1 s each)
FetchDurations == {200}

InitRest ==
    /\ bus = <<>>
    /\ ConnectIdle
    /\ RetryIdle
    /\ join_slots = <<>>
    /\ sent = 0
    /\ ParsersIdle
    /\ FetchIdle
    /\ ProxyIdle
    /\ mode \in {"rest", "timer"}
    /\ now = 4 * ONE_MINUTE_MILLIS + 30000
    /\ pc = "wait"
    /\ tick_close_time = 0
    /\ pending_five_min = None
    /\ fetcher_symbols = IF mode = "rest" THEN <<"BTCUSDT">> ELSE <<>>
    /\ refresh_res = None
    /\ bapi_cache = BinanceMktStatusCache_default
    /\ ticks = 0
    /\ passes = <<>>
    /\ one_min_result = None
    /\ five_min_result = None

\* lines 1396-1402: the next minute boundary is computed and slept until
RestWait ==
    /\ mode = "rest"
    /\ pc = "wait"
    /\ ticks < MaxTicks
    /\ ticks' = ticks + 1
    /\ tick_close_time' = next_minute_boundary(now)
    /\ now' = tick_close_time'
    /\ pc' = IF is_five_minute_boundary(tick_close_time') THEN "refresh" ELSE "delay"
    /\ one_min_result' = None
    /\ five_min_result' = None
    /\ UNCHANGED <<join_slots, retryVars, connVars, proxyVars, bus, sent, parserVars, fetchVars, mode, pending_five_min,
                   fetcher_symbols, refresh_res, bapi_cache, passes>>

\* a plausible slip: a failed refresh leaves the fetcher without symbols
refresh_symbols_or_empty(symbols, res) == IF res.ok THEN res.v ELSE <<>>

\* BinanceRestFetcher::refresh_symbols: the list is replaced on Ok only
refresh_symbols(symbols, res) == IF res.ok THEN res.v ELSE symbols

\* lines 1405-1427: at a five-minute boundary the symbol list is refreshed and
\* the five-minute pass scheduled
RestRefresh ==
    /\ mode = "rest"
    /\ pc = "refresh"
    /\ \E r \in DOMAIN RefreshResults, d \in {100, 1500} :
        /\ fetcher_symbols' = refresh_symbols(fetcher_symbols, RefreshResults[r])
        /\ refresh_res' = Some(RefreshResults[r])
        /\ now' = now + d
        /\ pending_five_min' =
              Some([close_time |-> tick_close_time,
                    ready |-> now' + 1000 * FIVE_MIN_REQUEST_DELAY_SECS])
    /\ pc' = "delay"
    /\ UNCHANGED <<join_slots, retryVars, connVars, proxyVars, bus, sent, parserVars, fetchVars, mode, tick_close_time,
                   bapi_cache, ticks, passes, one_min_result, five_min_result>>

\* the responses a symbol is answered with in the one-minute fan-out: the
\* numbers of its premium-index and of its open-interest response

\* the results of the borrow-repay and of the available-inventory request of
\* a tick: both fail, or both bodies parse (parse_ok) and carry the time ct
StatusResults(ct) ==
    <<<<Err("request_error"), Err("request_error")>>,
      <<Ok([parse_ok |-> TRUE, time |-> Millis(ct), assets |-> {"BTC"}]),
        Ok([parse_ok |-> TRUE, time |-> Millis(ct), assets |-> {"BTC", "ETH"}])>>>>

\* a plausible slip: the bar is closed before the frames of the minute
one_minute_frames_bar_first(result, cache) ==
    <<BarClose1mMsg_to_bytes(result.close_time)>>
        \o send_one_minute_messages(result)
        \o send_binance_mkt_status_message(result, cache)

\* lines 1447-1467: the frames of the one-minute pass of a tick, in order
one_minute_frames(result, cache) ==
    send_one_minute_messages(result)
        \o send_binance_mkt_status_message(result, cache)
        \o <<BarClose1mMsg_to_bytes(result.close_time)>>

\* a plausible slip: the delay is not waited for
five_minute_ready_at_once(pending, instant) == pending.some

\* a plausible slip: the pass waits a further five minutes
five_minute_ready_too_late(pending, instant) ==
    pending.some /\ instant >= pending.val.ready + FIVE_MINUTE_MILLIS

\* lines 1470-1471: a pass is pending and its delay has elapsed
five_minute_ready(pending, instant) == pending.some /\ instant >= pending.val.ready

\* lines 1436-1471: the 1 s delay, the one-minute fan-out, its frames, the
\* BarClose1m frame and the test of the pending five-minute pass
RestOneMinute ==
    /\ mode = "rest"
    /\ pc = "delay"
    /\ \E a \in [DOMAIN fetcher_symbols -> {<<6, 4>>, <<6, 2>>, <<4, 4>>}],
          st \in DOMAIN StatusResults(tick_close_time),
          d \in FetchDurations :
        LET result == fetch_one_minute(fetcher_symbols, tick_close_time,
                [i \in DOMAIN fetcher_symbols |->
                    PremiumResponses(tick_close_time - ONE_MINUTE_MILLIS)[a[i][1]]],
                [i \in DOMAIN fetcher_symbols |->
                    OpenInterestResponses(tick_close_time)[a[i][2]]],
                StatusResults(tick_close_time)[st][1],
                StatusResults(tick_close_time)[st][2])
            frames == one_minute_frames(result, bapi_cache)
        IN /\ now' = now + REQUEST_DELAY_MS + d
           /\ bus' = Publish(bus, "rest", tick_close_time, frames)
           /\ sent' = sent + Sent(Len(frames))
           /\ bapi_cache' = MktStatusCacheAfter(result, bapi_cache)
           /\ one_min_result' = Some(result)
           /\ pc' = IF five_minute_ready(pending_five_min, now') THEN "five" ELSE "wait"
    /\ UNCHANGED <<join_slots, retryVars, connVars, proxyVars, parserVars, fetchVars, mode, tick_close_time, pending_five_min,
                   fetcher_symbols, refresh_res, ticks, passes, five_min_result>>

\* the responses a symbol is answered with in the five-minute fan-out: the
\* numbers of its top-account, top-position, global-account and
\* open-interest-hist responses

\* a plausible slip: the pass is made for the tick that runs it
five_minute_close_time_of_tick(pending, tick) == tick

\* line 1470: the close time the pending pass was scheduled for
five_minute_close_time(pending, tick) == pending.val.close_time

\* lines 1472-1482: the five-minute fan-out for the scheduled close time and
\* its frames; the pass is no longer pending
RestFiveMinute ==
    /\ mode = "rest"
    /\ pc = "five"
    /\ \E a \in [DOMAIN fetcher_symbols -> {<<3, 3, 3, 2>>, <<3, 3, 1, 2>>}], d \in FetchDurations :
        LET scheduled_close_time == five_minute_close_time(pending_five_min, tick_close_time)
            result == fetch_five_minute(fetcher_symbols, scheduled_close_time,
                [i \in DOMAIN fetcher_symbols |-> RatioResponses(scheduled_close_time)[a[i][1]]],
                [i \in DOMAIN fetcher_symbols |-> RatioResponses(scheduled_close_time)[a[i][2]]],
                [i \in DOMAIN fetcher_symbols |-> RatioResponses(scheduled_close_time)[a[i][3]]],
                [i \in DOMAIN fetcher_symbols |->
                    OpenInterestHistResponses(scheduled_close_time)[a[i][4]]])
        IN \E order \in Orders(result.top_account) :
            LET frames == send_five_minute_messages(result, order) IN
            /\ now' = now + d
            /\ bus' = Publish(bus, "rest", tick_close_time, frames)
            /\ sent' = sent + Sent(Len(frames))
            /\ passes' = Append(passes, [scheduled |-> pending_five_min.val.close_time,
                                         ready |-> pending_five_min.val.ready,
                                         issued |-> now,
                                         tick |-> tick_close_time])
            /\ five_min_result' = Some(result)
    /\ pending_five_min' = None
    /\ pc' = "wait"
    /\ UNCHANGED <<join_slots, retryVars, connVars, proxyVars, parserVars, fetchVars, mode, tick_close_time, fetcher_symbols, refresh_res,
                   bapi_cache, ticks, one_min_result>>

\* run_bar_close_timer, lines 1696-1703
TimerWait ==
    /\ mode = "timer"
    /\ pc = "wait"
    /\ ticks < MaxTicks
    /\ ticks' = ticks + 1
    /\ tick_close_time' = next_minute_boundary(now)
    /\ now' = tick_close_time'
    /\ pc' = "delay"
    /\ UNCHANGED <<join_slots, retryVars, connVars, proxyVars, bus, sent, parserVars, fetchVars, mode, pending_five_min,
                   fetcher_symbols, refresh_res, bapi_cache, passes, one_min_result, five_min_result>>

\* run_bar_close_timer, lines 1706-1724: the 1 s delay and the BarClose1m frame
TimerBarClose ==
    /\ mode = "timer"
    /\ pc = "delay"
    /\ now' = now + REQUEST_DELAY_MS
    /\ bus' = Publish(bus, "timer", tick_close_time,
                      <<BarClose1mMsg_to_bytes(tick_close_time)>>)
    /\ sent' = sent + Sent(1)
    /\ pc' = "wait"
    /\ UNCHANGED <<join_slots, retryVars, connVars, proxyVars, parserVars, fetchVars, mode, tick_close_time, pending_five_min,
                   fetcher_symbols, refresh_res, bapi_cache, ticks, passes, one_min_result,
                   five_min_result>>

NextRest ==
    \/ RestWait
    \/ RestRefresh
    \/ RestOneMinute
    \/ RestFiveMinute
    \/ TimerWait
    \/ TimerBarClose

SpecRest == InitRest /\ [][NextRest]_vars

-----------------------------------------------------------------------------
(* proxy.rs and connection.rs: the sessions that hold a clone of the       *)
(* broadcast::Sender of a channel (MktConnection.tx) and Proxy::run, which *)
(* holds a receiver of each channel.  The tasks run on the worker threads  *)
(* of the runtime (main.rs: worker_threads = 4), so the steps of different *)
(* tasks interleave at every send.  A call of Parser::parse is followed    *)
(* from one send to the next.                                              *)

\* The sessions: the channel they send on and their parser.  The futures
\* depth session shares its channel with a signal session.
Sessions ==
    <<[ch |-> "inc", parser |-> "inc"],
      [ch |-> "inc", parser |-> "signal"],
      [ch |-> "trade", parser |-> "trade"]>>

\* what the parser of a session computes for the payloads it is given here
SessionResults(parser) ==
    CASE parser = "inc" ->
             {BinanceIncParser_parse(TRUE, DepthPayloads[i]) : i \in {1, 2}}
      [] parser = "signal" ->
             {BinanceSignalParser_parse(BinanceSignalParser_new(TRUE), SignalPayloads[1])}
      [] parser = "trade" -> {BinanceTradeParser_parse(TradePayloads[1])}

InitBus ==
    /\ bus = <<>>
    /\ ConnectIdle
    /\ RetryIdle
    /\ join_slots = <<>>
    /\ sent = 0
    /\ ParsersIdle
    /\ RestIdle
    /\ FetchIdle
    /\ chan = [c \in Channels |-> [buf |-> <<>>, sent |-> 0]]
    /\ published = [c \in Channels |-> <<>>]
    /\ sessions = [i \in DOMAIN Sessions |-> [pending |-> <<>>, frames |-> 0, ret |-> 0]]
    /\ rx_next = [c \in Channels |-> 0]
    /\ proxy_count = [c \in Channels |-> 0]
    /\ forwarded = <<>>
    /\ default_parsers \in {{}, {BinanceIncSeqNo}}
    /\ shutdown = FALSE
    /\ shutdown_unseen = FALSE
    /\ dropped = {}
    /\ proxy_pc = "run"

\* a session receives a payload and calls Parser::parse: the call is at its
\* first send, or has returned if the parser sends nothing
SessionParse(i) ==
    /\ calls < MaxBusCalls
    /\ sessions[i].pending = <<>>
    /\ \E r \in SessionResults(Sessions[i].parser) :
          sessions' = [sessions EXCEPT ![i] =
              [pending |-> r.out, frames |-> Len(r.out), ret |-> 0]]
    /\ calls' = calls + 1
    /\ UNCHANGED <<join_slots, shutdown_unseen, dropped, retryVars, connVars, bus, sent, last, tasks, restVars, fetchVars, chan, published,
                   rx_next, proxy_count, forwarded, default_parsers, shutdown, proxy_pc>>

\* the next sender.send of the parse call of a session; the call counts the
\* send if it is Ok
SessionSend(i) ==
    LET c == Sessions[i].ch
        s == sessions[i]
        entry == [by |-> "ws", id |-> i, f |-> Head(s.pending)]
    IN /\ s.pending # <<>>
       /\ chan' = [chan EXCEPT ![c] =
                      [buf |-> Publish(chan[c].buf, "ws", i, <<Head(s.pending)>>),
                       sent |-> chan[c].sent + Sent(1)]]
       /\ published' = [published EXCEPT ![c] =
                           IF Sent(1) = 1 THEN Append(published[c], entry)
                           ELSE published[c]]
       /\ sessions' = [sessions EXCEPT ![i].pending = Tail(s.pending),
                                        ![i].ret = s.ret + Sent(1)]
       /\ UNCHANGED <<join_slots, shutdown_unseen, dropped, retryVars, connVars, bus, sent, parserVars, restVars, fetchVars, rx_next,
                      proxy_count, forwarded, default_parsers, shutdown, proxy_pc>>

\* a plausible slip: a frame received stays the next frame of the receiver
broadcast_recv_again(ch, next) ==
    LET oldest == ch.sent - Len(ch.buf) IN
    IF next < oldest
    THEN [ok |-> FALSE, next |-> oldest, pos |-> 0, entry |-> ch.buf[1]]
    ELSE [ok |-> TRUE, next |-> next, pos |-> next + 1,
          entry |-> ch.buf[next - oldest + 1]]

\* broadcast::Receiver::recv when a frame was sent after position next: the
\* frame at next, or Err(Lagged) when the channel has overwritten it, which
\* moves the receiver to the oldest frame the channel retains
broadcast_recv(ch, next) ==
    LET oldest == ch.sent - Len(ch.buf) IN
    IF next < oldest
    THEN [ok |-> FALSE, next |-> oldest, pos |-> 0, entry |-> ch.buf[1]]
    ELSE [ok |-> TRUE, next |-> next + 1, pos |-> next + 1,
          entry |-> ch.buf[next - oldest + 1]]

\* the global shutdown signal is asserted
AssertShutdown ==
    /\ ~shutdown
    /\ shutdown' = TRUE
    /\ shutdown_unseen' = TRUE
    /\ UNCHANGED <<join_slots, dropped, retryVars, connVars, bus, sent, parserVars, restVars, fetchVars, chan, published,
                   sessions, rx_next, proxy_count, forwarded, default_parsers, proxy_pc>>

\* a plausible slip: any change of the shutdown value ends the loop
ProxyShutdown_any_change ==
    /\ proxy_pc = "run"
    /\ shutdown_unseen
    /\ shutdown_unseen' = FALSE
    /\ proxy_pc' = "stopped"
    /\ UNCHANGED <<join_slots, dropped, retryVars, connVars, bus, sent, parserVars, restVars, fetchVars, chan, published,
                   sessions, rx_next, proxy_count, forwarded, default_parsers, shutdown>>

\* Proxy::run, arm global_shutdown.changed(): the change is seen, and the loop
\* breaks when the value is true
ProxyShutdown ==
    /\ proxy_pc = "run"
    /\ shutdown_unseen
    /\ shutdown_unseen' = FALSE
    /\ proxy_pc' = IF shutdown THEN "stopped" ELSE "run"
    /\ UNCHANGED <<join_slots, dropped, retryVars, connVars, bus, sent, parserVars, restVars, fetchVars, chan, published,
                   sessions, rx_next, proxy_count, forwarded, default_parsers, shutdown>>

\* Proxy::run, arms inc_rx.recv() and trade_rx.recv(): an Ok frame is counted
\* and, if the default parser returns Some for it, handed to the forwarder; an
\* Err, Lagged or Closed (no frame is left and the senders are dropped), is
\* ignored.  The default parsers are pure: what they return depends on the
\* frame alone, here on its message type.
ProxyRecv(c) ==
    /\ proxy_pc = "run"
    /\ rx_next[c] < chan[c].sent \/ c \in dropped
    /\ IF rx_next[c] < chan[c].sent
       THEN LET r == broadcast_recv(chan[c], rx_next[c]) IN
            /\ rx_next' = [rx_next EXCEPT ![c] = r.next]
            /\ proxy_count' = [proxy_count EXCEPT ![c] = IF r.ok THEN @ + 1 ELSE @]
            /\ forwarded' = IF r.ok /\ r.entry.f[1].wval \notin default_parsers
                            THEN Append(forwarded, [ch |-> c, pos |-> r.pos, entry |-> r.entry])
                            ELSE forwarded
       ELSE UNCHANGED <<rx_next, proxy_count, forwarded>>
    /\ UNCHANGED <<join_slots, shutdown_unseen, dropped, retryVars, connVars, bus, sent, parserVars, restVars, fetchVars, chan, published,
                   sessions, default_parsers, shutdown, proxy_pc>>

\* Proxy::run, arm stats_timer.tick(): the statistics are logged and the two
\* counts start again from 0
ProxyStats ==
    /\ proxy_pc = "run"
    /\ proxy_count' = [c \in Channels |-> 0]
    /\ UNCHANGED <<join_slots, shutdown_unseen, dropped, retryVars, connVars, bus, sent, parserVars, restVars, fetchVars, chan, published,
                   sessions, rx_next, forwarded, default_parsers, shutdown, proxy_pc>>

NextBus ==
    \/ \E i \in DOMAIN Sessions : SessionParse(i)
    \/ \E i \in DOMAIN Sessions : SessionSend(i)
    \/ AssertShutdown
    \/ ProxyShutdown
    \/ \E c \in Channels : ProxyRecv(c)
    \/ ProxyStats

SpecBus == InitBus /\ [][NextBus]_vars

\* the loops of rest_fetcher.rs while the global shutdown signal can be
\* asserted
NextShutdown ==
    \/ NextRest
    \/ AssertShutdown

SpecShutdown == InitRest /\ [][NextShutdown]_vars

-----------------------------------------------------------------------------
(* The futures kline session over several closed-kline events: each parse  *)
(* spawns a REST task, and the tasks run next to each other.               *)

\* the session receives a closed-kline event of the bar that closes at the
\* 5-minute boundary or of the bar 60000..119999, and calls Parser::parse
ParseClosedKline ==
    \E i \in {1, 2} :
        LET r == BinanceKlineParser_parse(TRUE, KlinePayloads[i]) IN
        /\ calls < MaxKlineCalls
        /\ calls' = calls + 1
        /\ bus' = Publish(bus, "ws", calls + 1, r.out)
        /\ sent' = sent + Sent(Len(r.out))
        /\ last' = [parser |-> "kline", flag |-> TRUE, msg |-> KlinePayloads[i],
                    ret |-> r.ret, id |-> calls + 1]
        /\ tasks' = tasks \o [k \in 1..Len(r.spawn) |-> [r.spawn[k] EXCEPT !.id = calls + 1]]
        /\ UNCHANGED <<join_slots, retryVars, connVars, proxyVars, restVars, fetchVars>>

NextKline ==
    \/ ParseClosedKline
    \/ RestTaskPremium
    \/ RestTaskOpenInterest
    \/ RestTaskFiveMinute

SpecKline == Init /\ [][NextKline]_vars

-----------------------------------------------------------------------------
(* The depth and snapshot parsers on order books whose level entries are   *)
(* well formed or not.                                                     *)

\* the entries of a bids or asks array: two well-formed ones, one with a third
\* element, one that is not an array, one with a single element, one whose
\* price is a number, and two with a string that does not parse
LevelEntries ==
    <<LevelJson("100", "1"),
      LevelJson("100.5", "2"),
      JArr(<<JStr("101"), JStr("2"), JStr("0")>>),
      JStr("100"),
      JArr(<<JStr("100")>>),
      JArr(<<JInt(100), JStr("1")>>),
      LevelJson("abc", "1"),
      LevelJson("100", "")>>

\* arrays of at most two entries, as the indices of their entries
LevelArrays ==
    {<<>>} \cup {<<i>> : i \in DOMAIN LevelEntries}
           \cup {<<i, j>> : i \in DOMAIN LevelEntries, j \in DOMAIN LevelEntries}

LevelArray(ix) == JArr([k \in DOMAIN ix |-> LevelEntries[ix[k]]])

\* the books given to the parsers: every array as the bids beside one good
\* ask and as the asks beside one good bid, and the arrays of at most one
\* entry as the asks beside no bid
BookCases ==
    {[bids |-> ix, asks |-> <<1>>] : ix \in LevelArrays}
    \cup {[bids |-> <<2>>, asks |-> ix] : ix \in LevelArrays}
    \cup {[bids |-> <<>>, asks |-> ix] : ix \in {x \in LevelArrays : Len(x) <= 1}}

BookSnapshot(c, last_update_id) ==
    JObj([s |-> JStr("BTCUSDT"), lastUpdateId |-> last_update_id,
          bids |-> LevelArray(c.bids), asks |-> LevelArray(c.asks)])

BookDepthUpdate(c) ==
    With(With(DepthUpdate, "b", LevelArray(c.bids)), "a", LevelArray(c.asks))

\* the snapshot session calls Parser::parse with a book; lastUpdateId is a
\* number, or a string where the book has no level
ParseBookSnapshot ==
    \E c \in BookCases, id \in {0, 20, 21} :
        /\ id # 20 => c.asks = <<>>
        /\ LET msg == BookSnapshot(c, IF id = 21 THEN JStr("21") ELSE JInt(id)) IN
           Parse("snapshot", FALSE, msg, BinanceSnapshotParser_parse(msg))

\* the futures depth session calls Parser::parse with a book
ParseBookInc ==
    \E c \in BookCases :
        Parse("inc", TRUE, BookDepthUpdate(c),
              BinanceIncParser_parse(TRUE, BookDepthUpdate(c)))

NextBook ==
    \/ ParseBookSnapshot
    \/ ParseBookInc

SpecBook == Init /\ [][NextBook]_vars

-----------------------------------------------------------------------------
(* The derivatives-metric session next to the fetcher loop: the parser     *)
(* holds the HashSet it was constructed with (binance_parser.rs 1314-1323) *)
(* and the fetcher holds its own Vec of symbols (rest_fetcher.rs 851-856). *)

\* the fetcher loop runs and the session has received nothing
InitSymbols ==
    /\ InitRest
    /\ mode = "rest"

\* the session receives a mark-price event of a symbol of the set it was
\* constructed with, or of another symbol
ParseMetricsEvent ==
    \E i \in {1, 10} :
        Parse("metrics", FALSE, MetricsPayloads[i],
              BinanceDerivativesMetricsParser_parse(MetricsPayloads[i]))

NextSymbols ==
    \/ RestWait
    \/ RestRefresh
    \/ RestOneMinute
    \/ RestFiveMinute
    \/ ParseMetricsEvent

SpecSymbols == InitSymbols /\ [][NextSymbols]_vars

-----------------------------------------------------------------------------
(* connection.rs: WsConnector::connect, followed from one await to the     *)
(* next.  An entry of conn_log is a connection attempt (connect_async), a  *)
(* sleep, a frame sent on a connection or a send that failed; a connection *)
(* is named by the number of the attempt that opened it.                   *)

MAX_RETRIES == 5
\* RETRY_DELAY, in milliseconds
RETRY_DELAY == 1000

\* tungstenite errors of connect_async: Io with its ErrorKind, Http with the
\* status of the response, and other variants
IoError(io_kind) == [variant |-> "Io", io_kind |-> io_kind, status |-> 0]
HttpError(status) == [variant |-> "Http", io_kind |-> "none", status |-> status]
OtherError(variant) == [variant |-> variant, io_kind |-> "none", status |-> 0]

\* connect_async returned Ok
Connected == OtherError("Ok")

\* the errors connect_async is answered with here
ConnectErrors ==
    {IoError(k) : k \in {"ConnectionRefused", "ConnectionAborted", "ConnectionReset",
                         "NotConnected", "TimedOut"}}
        \cup {HttpError(st) : st \in {200, 503}}
        \cup {OtherError("Tls")}

\* StatusCode::is_success
is_success(status) == status >= 200 /\ status < 300

\* a plausible slip: every Io error retried
is_dns_error_any_io(e) ==
    CASE e.variant = "Io" -> TRUE
      [] e.variant = "Http" -> ~is_success(e.status)
      [] OTHER -> FALSE

is_dns_error(e) ==
    CASE e.variant = "Io" ->
             e.io_kind \in {"ConnectionRefused", "ConnectionAborted",
                            "ConnectionReset", "NotConnected"}
      [] e.variant = "Http" -> ~is_success(e.status)
      [] OTHER -> FALSE

\* entries of conn_log
Attempt(n, outcome) == [ev |-> "connect", conn |-> n, what |-> outcome]
Slept(ms) == [ev |-> "sleep", conn |-> 0, what |-> ms]
SentText(n, text) == [ev |-> "text", conn |-> n, what |-> text]
SendFailed(n, text) == [ev |-> "send failed", conn |-> n, what |-> text]

\* the connection attempts made so far
Attempts == Cardinality({k \in DOMAIN conn_log : conn_log[k].ev = "connect"})

InitConnect ==
    /\ bus = <<>>
    /\ sent = 0
    /\ ParsersIdle
    /\ RestIdle
    /\ FetchIdle
    /\ ProxyIdle
    /\ RetryIdle
    /\ join_slots = <<>>
    /\ conn_url \in {[valid |-> v, sub_msg |-> "SUBSCRIBE"] : v \in BOOLEAN}
    /\ conn_pc = "parse"
    /\ conn_retry = 0
    /\ conn_log = <<>>
    /\ conn_res = ConnErr("none")

\* Url::parse(url)?
ConnectParseUrl ==
    /\ conn_pc = "parse"
    /\ IF conn_url.valid
       THEN conn_pc' = "connect" /\ UNCHANGED conn_res
       ELSE conn_pc' = "done" /\ conn_res' = ConnErr("Invalid URL")
    /\ UNCHANGED <<join_slots, retryVars, bus, sent, parserVars, restVars, fetchVars, proxyVars,
                   conn_url, conn_retry, conn_log>>

\* connect_async(url.clone()).await and the match on its result
ConnectAttempt ==
    /\ conn_pc = "connect"
    /\ conn_retry < MAX_RETRIES
    /\ \/ /\ conn_log' = Append(conn_log, Attempt(Attempts + 1, Connected))
          /\ conn_pc' = "subscribe"
          /\ UNCHANGED conn_res
       \/ \E e \in ConnectErrors :
            /\ conn_log' = Append(conn_log, Attempt(Attempts + 1, e))
            /\ IF is_dns_error(e)
               THEN conn_pc' = "sleep" /\ UNCHANGED conn_res
               ELSE conn_pc' = "done" /\ conn_res' = ConnErr(e.variant)
    /\ UNCHANGED <<join_slots, retryVars, bus, sent, parserVars, restVars, fetchVars, proxyVars,
                   conn_url, conn_retry>>

\* time::sleep(RETRY_DELAY).await, then the next iteration of the for loop or,
\* after the last one, the Err after the loop
ConnectSleep ==
    /\ conn_pc = "sleep"
    /\ conn_log' = Append(conn_log, Slept(RETRY_DELAY))
    /\ conn_retry' = conn_retry + 1
    /\ IF conn_retry + 1 < MAX_RETRIES
       THEN conn_pc' = "connect" /\ UNCHANGED conn_res
       ELSE conn_pc' = "done" /\ conn_res' = ConnErr("Failed to connect")
    /\ UNCHANGED <<join_slots, retryVars, bus, sent, parserVars, restVars, fetchVars, proxyVars, conn_url>>

\* a plausible slip: a failed send of the subscription is retried on a new
\* connection
ConnectSubscribe_retry ==
    /\ conn_pc = "subscribe"
    /\ \E send_ok \in BOOLEAN :
          IF send_ok
          THEN /\ conn_log' = Append(conn_log, SentText(Attempts, conn_url.sub_msg))
               /\ conn_res' = ConnOk(Attempts)
               /\ conn_pc' = "done"
          ELSE /\ conn_log' = Append(conn_log, SendFailed(Attempts, conn_url.sub_msg))
               /\ UNCHANGED conn_res
               /\ conn_pc' = IF Attempts < MAX_RETRIES THEN "connect" ELSE "subscribe"
    /\ UNCHANGED <<join_slots, retryVars, bus, sent, parserVars, restVars, fetchVars, proxyVars,
                   conn_url, conn_retry>>

\* ws_stream.send(Message::Text(sub_msg.to_string())).await on the connection
\* just opened: Ok and the connection is returned, or Err and it is dropped
ConnectSubscribe ==
    /\ conn_pc = "subscribe"
    /\ \E send_ok \in BOOLEAN :
          IF send_ok
          THEN /\ conn_log' = Append(conn_log, SentText(Attempts, conn_url.sub_msg))
               /\ conn_res' = ConnOk(Attempts)
          ELSE /\ conn_log' = Append(conn_log, SendFailed(Attempts, conn_url.sub_msg))
               /\ conn_res' = ConnErr("send")
    /\ conn_pc' = "done"
    /\ UNCHANGED <<join_slots, retryVars, bus, sent, parserVars, restVars, fetchVars, proxyVars,
                   conn_url, conn_retry>>

NextConnect ==
    \/ ConnectParseUrl
    \/ ConnectAttempt
    \/ ConnectSleep
    \/ ConnectSubscribe

SpecConnect == InitConnect /\ [][NextConnect]_vars

\* connect with the weak fairness of a task that the runtime keeps polling
FairSpecConnect == SpecConnect /\ WF_vars(NextConnect)

-----------------------------------------------------------------------------
(* Properties of the parsers.                                              *)

\* the required fields of a payload, each with its JSON type
RequiredFields(parser, flag, msg) ==
    CASE parser = "trade" ->
             {<<"e", "str">>, <<"s", "str">>, <<"t", "int">>, <<"p", "str">>,
              <<"q", "str">>, <<"T", "int">>, <<"m", "bool">>}
      [] parser = "inc" ->
             {<<"e", "str">>, <<"s", "str">>, <<"U", "int">>, <<"u", "int">>,
              <<IF is_some(get(msg, "T")) THEN "T" ELSE "E", "int">>,
              <<"b", "arr">>, <<"a", "arr">>}
             \cup (IF flag THEN {<<"pu", "int">>} ELSE {})
      [] parser = "snapshot" ->
             {<<"s", "str">>, <<"lastUpdateId", "int">>, <<"bids", "arr">>,
              <<"asks", "arr">>}
      [] parser = "kline" -> {<<"s", "str">>, <<"k", "obj">>}
      [] parser = "signal" -> {<<"E", "int">>}
      [] parser = "mark" ->
             {<<"e", "str">>, <<"s", "str">>, <<"p", "str">>, <<"i", "str">>,
              <<"r", "str">>, <<"E", "int">>, <<"T", "int">>}
      [] parser = "force" -> {<<"e", "str">>, <<"o", "obj">>}
      [] parser = "order" ->
             {<<"s", "str">>, <<"S", "str">>, <<"z", "str">>, <<"ap", "str">>,
              <<"T", "int">>}
      [] parser = "bar" ->
             {<<"o", "str">>, <<"h", "str">>, <<"l", "str">>, <<"c", "str">>,
              <<"v", "str">>, <<"q", "str">>, <<"t", "int">>, <<"n", "int">>,
              <<"V", "str">>, <<"Q", "str">>}

\* some required field of the object is missing or has the wrong JSON type
Lacks(parser, flag, msg) ==
    \E f \in RequiredFields(parser, flag, msg) : get(msg, f[1]).k # f[2]

\* the payload is not JSON, or lacks a required field of the parser; for a
\* top-level array: some element lacks a required field
Defective(parser, flag, msg) ==
    \/ msg.k = "bad"
    \/ /\ parser \in {"trade", "inc", "snapshot", "signal"}
       /\ Lacks(parser, flag, msg)
    \/ /\ parser = "kline"
       /\ Lacks("kline", flag, msg) \/ Lacks("bar", flag, get(msg, "k"))
    \/ /\ parser = "metrics"
       /\ \/ /\ as_array(msg)
             /\ \E i \in 1..Len(msg.v) : Lacks("mark", flag, msg.v[i])
          \/ /\ ~as_array(msg)
             /\ IF as_str(get(msg, "e")) /\ get(msg, "e").v = "forceOrder"
                THEN Lacks("force", flag, msg) \/ Lacks("order", flag, get(msg, "o"))
                ELSE Lacks("mark", flag, msg)

\* the positions of the bus that hold frames sent by the call id or its tasks
FramesOfCall(id) == {i \in 1..Len(bus) : bus[i].id = id}

\* the BinanceIncSeqNo frame (symbol, pu, final_u = u, first_u = U, ts) of a
\* depthUpdate
ExpectedSeqNo(msg) ==
    <<U32(1016), U32(len(get(msg, "s").v)), Raw(get(msg, "s").v),
      I64(get(msg, "pu").v), I64(get(msg, "u").v), I64(get(msg, "U").v),
      I64(IF is_some(get(msg, "T")) THEN get(msg, "T").v ELSE get(msg, "E").v)>>

RECURSIVE ExpectedLevels(_)
ExpectedLevels(arr) ==
    IF arr = <<>> THEN <<>>
    ELSE <<F64(parse_f64(Head(arr).v[1].v)), F64(parse_f64(Head(arr).v[2].v))>>
         \o ExpectedLevels(Tail(arr))

\* the OrderBookInc frame of a depthUpdate: bids first, then asks
ExpectedInc(msg) ==
    <<U32(1005), U32(len(get(msg, "s").v)), Raw(get(msg, "s").v),
      I64(get(msg, "U").v), I64(get(msg, "u").v),
      I64(IF is_some(get(msg, "T")) THEN get(msg, "T").v ELSE get(msg, "E").v),
      U8(0), Pad(7), U32(Len(get(msg, "b").v)), U32(Len(get(msg, "a").v))>>
    \o ExpectedLevels(get(msg, "b").v) \o ExpectedLevels(get(msg, "a").v)

\* the step is a parse call of the parser
Called(parser) == calls' = calls + 1 /\ last'.parser = parser

\* C1: a depthUpdate accepted by the futures depth parser (s, U, u, timestamp,
\* b, a and pu present) makes parse publish exactly two frames, first the
\* BinanceIncSeqNo (symbol, pu, u, U, ts), then the OrderBookInc with the same
\* symbol, U, u, ts, is_snapshot = 0, the counts of b and a and the levels
\* bids first then asks; parse returns 2.
C1_FuturesDepthTwoFrames ==
    [][(/\ Called("inc")
        /\ last'.flag
        /\ ~Defective("inc", TRUE, last'.msg)
        /\ get(last'.msg, "e").v = "depthUpdate")
       => (/\ sent' = sent + 2
           /\ last'.ret = 2
           /\ Len(bus') >= 2
           /\ bus'[Len(bus') - 1].f = ExpectedSeqNo(last'.msg)
           /\ bus'[Len(bus')].f = ExpectedInc(last'.msg)
           /\ bus'[Len(bus') - 1].id = last'.id
           /\ bus'[Len(bus')].id = last'.id)]_vars

\* the futures depth parser has just published the two frames of a depthUpdate
C1_Witness ==
    /\ last.parser = "inc"
    /\ last.flag
    /\ ~Defective("inc", TRUE, last.msg)
    /\ last.ret = 2
    /\ sent = 2
    /\ Len(get(last.msg, "b").v) = 2
    /\ bus[1].f = ExpectedSeqNo(last.msg)

\* C2: a valid depthUpdate without pu given to the spot depth parser makes
\* parse publish exactly one frame, an OrderBookInc, and no BinanceIncSeqNo.
C2_SpotDepthOneFrame ==
    (/\ last.parser = "inc"
     /\ ~last.flag
     /\ ~Defective("inc", FALSE, last.msg)
     /\ get(last.msg, "e").v = "depthUpdate"
     /\ ~is_some(get(last.msg, "pu"))
     /\ sent = Len(bus))
    => (/\ Cardinality(FramesOfCall(last.id)) = 1
        /\ \A i \in FramesOfCall(last.id) : bus[i].f[1] = U32(OrderBookInc))

\* C3: the value parse returns for a valid payload is the number of frames the
\* bus observes because of the call, the frames of the tasks it spawned
\* included.
C3_ReturnCountsFrames ==
    (/\ last.id > 0
     /\ ~Defective(last.parser, last.flag, last.msg)
     /\ sent = Len(bus))
    => Cardinality(FramesOfCall(last.id)) = last.ret

\* C4 as stated: a payload that is not JSON or lacks a required field (in any
\* element, for an array) makes parse return 0, publish nothing, spawn nothing.
C4_DefectivePayloadNothing ==
    (last.id > 0 /\ Defective(last.parser, last.flag, last.msg))
    => (/\ last.ret = 0
        /\ FramesOfCall(last.id) = {}
        /\ \A i \in 1..Len(tasks) : tasks[i].id # last.id)

\* an array element the derivatives-metric parser publishes: no required field
\* lacking, the symbol in the SymbolSet, the three numbers parse
GoodMarkPrice(item) ==
    /\ ~Lacks("mark", FALSE, item)
    /\ get(item, "e").v = "markPriceUpdate"
    /\ to_lowercase(get(item, "s").v) \in SymbolSet
    /\ \A key \in {"p", "i", "r"} : parse_f64_ok(get(item, key).v)

\* C4 (amended): a payload that is not a top-level array and is not JSON or
\* lacks a required field makes parse return 0, publish nothing and spawn
\* nothing; of a top-level array given to the derivatives-metric parser each
\* element is judged on its own: parse publishes three frames for each good
\* element, nothing for the others, and returns the number of frames.
C4_DefectiveNothingPerElement ==
    [][(calls' = calls + 1)
       => (/\ (Defective(last'.parser, last'.flag, last'.msg) /\ ~as_array(last'.msg))
              => (last'.ret = 0 /\ sent' = sent /\ bus' = bus /\ tasks' = tasks)
           /\ (last'.parser = "metrics" /\ as_array(last'.msg))
              => (/\ last'.ret = 3 * Cardinality({i \in 1..Len(last'.msg.v) :
                                                   GoodMarkPrice(last'.msg.v[i])})
                  /\ sent' = sent + last'.ret
                  /\ tasks' = tasks))]_vars

\* the derivatives-metric parser was given an array with an element lacking a
\* field and a good element, and published the three frames of the good one
C4_Witness ==
    /\ last.parser = "metrics"
    /\ as_array(last.msg)
    /\ \E i \in 1..Len(last.msg.v) : Lacks("mark", FALSE, last.msg.v[i])
    /\ last.ret = 3
    /\ sent = 3

\* the Kline frame of a kline event
ExpectedKline(msg) ==
    LET k == get(msg, "k") IN
    <<U32(1010), U32(len(get(msg, "s").v)), Raw(get(msg, "s").v),
      F64(parse_f64(get(k, "o").v)), F64(parse_f64(get(k, "h").v)),
      F64(parse_f64(get(k, "l").v)), F64(parse_f64(get(k, "c").v)),
      F64(parse_f64(get(k, "v").v)), F64(parse_f64(get(k, "q").v)),
      I64(get(k, "t").v), I64(get(k, "n").v),
      F64(parse_f64(get(k, "V").v)), F64(parse_f64(get(k, "Q").v))>>

\* the kline event has all required fields (s, k.o/h/l/c/v/q/t/n/V/Q) and its
\* numbers parse
KlineComplete(flag, msg) ==
    /\ ~Defective("kline", flag, msg)
    /\ \A i \in 1..Len(KlineStrs) : parse_f64_ok(get(get(msg, "k"), KlineStrs[i]).v)

\* C11: for every kline event with all required fields the kline parser
\* publishes one Kline frame whether the closed flag k.x of the bar is true or
\* false.
C11_KlineFrameWhateverClosed ==
    (/\ last.parser = "kline"
     /\ KlineComplete(last.flag, last.msg)
     /\ sent = Len(bus))
    => \E i \in FramesOfCall(last.id) :
          bus[i].by = "ws" /\ bus[i].f = ExpectedKline(last.msg)

\* C11 (amended): for a kline event with all required fields the kline parser
\* publishes exactly one Kline frame and returns 1 when k.x is the boolean
\* true; when k.x is false, missing or not a boolean it publishes nothing,
\* spawns nothing and returns 0.
C11_KlineFrameOnlyWhenClosed ==
    [][(Called("kline") /\ KlineComplete(last'.flag, last'.msg))
       => LET x == get(get(last'.msg, "k"), "x") IN
          IF as_bool(x) /\ x.v
          THEN /\ last'.ret = 1
               /\ sent' = sent + 1
               /\ bus' # <<>>
               /\ bus'[Len(bus')] = [by |-> "ws", id |-> last'.id,
                                      f |-> ExpectedKline(last'.msg)]
          ELSE /\ last'.ret = 0
               /\ sent' = sent
               /\ bus' = bus
               /\ tasks' = tasks]_vars

\* the kline parser was given a complete event of a bar that is not closed and
\* published nothing
C11_Witness ==
    /\ last.parser = "kline"
    /\ KlineComplete(last.flag, last.msg)
    /\ as_bool(get(get(last.msg, "k"), "x"))
    /\ ~get(get(last.msg, "k"), "x").v
    /\ last.ret = 0
    /\ sent = 0

RECURSIVE ExpectedMarkFrames(_)
\* the frames of the mark-price updates of a list: for each good element, in
\* order, MarkPrice (p), IndexPrice (i) and FundingRate (r, T), all with its
\* symbol and its event time E
ExpectedMarkFrames(items) ==
    IF items = <<>> THEN <<>>
    ELSE LET item == Head(items)
             symbol == get(item, "s").v
         IN (IF GoodMarkPrice(item)
             THEN <<<<U32(1011), U32(len(symbol)), Raw(symbol),
                      F64(parse_f64(get(item, "p").v)), I64(get(item, "E").v)>>,
                    <<U32(1012), U32(len(symbol)), Raw(symbol),
                      F64(parse_f64(get(item, "i").v)), I64(get(item, "E").v)>>,
                    <<U32(1014), U32(len(symbol)), Raw(symbol),
                      F64(parse_f64(get(item, "r").v)), I64(get(item, "T").v),
                      I64(get(item, "E").v)>>>>
             ELSE <<>>)
            \o ExpectedMarkFrames(Tail(items))

\* the payload is a markPriceUpdate object or a top-level array
MarkPricePayload(msg) ==
    \/ as_array(msg)
    \/ /\ msg.k = "obj"
       /\ as_str(get(msg, "e"))
       /\ get(msg, "e").v = "markPriceUpdate"

\* C12: of a markPriceUpdate (a single object or each element of a top-level
\* array) with all required fields, exactly three frames are published if the
\* lowercased symbol is in the SymbolSet, in the order MarkPrice, IndexPrice,
\* FundingRate, all with its symbol and event time, and nothing if it is not;
\* for an array the return value is 3 times the number of accepted elements.
C12_MarkPriceThreeFrames ==
    [][(Called("metrics") /\ MarkPricePayload(last'.msg))
       => LET items == IF as_array(last'.msg) THEN last'.msg.v ELSE <<last'.msg>>
              frames == ExpectedMarkFrames(items)
              n == Len(frames)
              kept == IF n < BusCapacity THEN n ELSE BusCapacity
          IN /\ last'.ret = 3 * Cardinality({i \in 1..Len(items) :
                                                GoodMarkPrice(items[i])})
             /\ last'.ret = n
             /\ sent' = sent + n
             /\ Len(bus') >= kept
             /\ \A i \in 1..kept :
                   bus'[Len(bus') - kept + i] =
                       [by |-> "ws", id |-> last'.id, f |-> frames[n - kept + i]]
             /\ n = 0 => bus' = bus]_vars

\* the array with BTCUSDT and ETHUSDT gave the three frames of BTCUSDT only
C12_Witness ==
    /\ last.parser = "metrics"
    /\ as_array(last.msg)
    /\ Len(last.msg.v) = 2
    /\ get(last.msg.v[1], "s") = JStr("BTCUSDT")
    /\ get(last.msg.v[2], "s") = JStr("ETHUSDT")
    /\ ~Lacks("mark", FALSE, last.msg.v[2])
    /\ last.ret = 3
    /\ Len(bus) = 3
    /\ \A i \in 1..3 : bus[i].f[3] = Raw("BTCUSDT")
    /\ <<bus[1].f[1], bus[2].f[1], bus[3].f[1]>> = <<U32(1011), U32(1012), U32(1014)>>

\* the payload is a forceOrder event carrying o.s, o.S, o.z, o.ap and o.T, its
\* quantity and price parsing as numbers
ForceOrderComplete(msg) ==
    /\ msg.k = "obj"
    /\ as_str(get(msg, "e"))
    /\ get(msg, "e").v = "forceOrder"
    /\ ~Lacks("force", FALSE, msg)
    /\ ~Lacks("order", FALSE, get(msg, "o"))
    /\ parse_f64_ok(get(get(msg, "o"), "z").v)
    /\ parse_f64_ok(get(get(msg, "o"), "ap").v)

\* the LiquidationOrder frame of a forceOrder event: symbol, side 'B' (66) for
\* BUY and 'S' (83) for SELL, quantity z, price ap, time T
ExpectedLiquidation(msg) ==
    LET o == get(msg, "o") IN
    <<U32(1013), U32(len(get(o, "s").v)), Raw(get(o, "s").v),
      U8(IF get(o, "S").v = "BUY" THEN 66 ELSE 83),
      F64(parse_f64(get(o, "z").v)), F64(parse_f64(get(o, "ap").v)),
      I64(get(o, "T").v)>>

\* C13: every forceOrder event carrying o.s, o.S in {BUY, SELL}, o.z, o.ap and
\* o.T makes the derivatives-metric parser publish exactly one
\* LiquidationOrder frame, with side 'B' for BUY and 'S' for SELL; an event
\* with any other o.S publishes nothing.
C13_ForceOrderOneFrame ==
    (last.parser = "metrics" /\ ForceOrderComplete(last.msg))
    => IF get(get(last.msg, "o"), "S").v \in {"BUY", "SELL"}
       THEN /\ sent = 1
            /\ \E i \in DOMAIN bus : bus[i].f = ExpectedLiquidation(last.msg)
       ELSE sent = 0

\* C13 (amended): a forceOrder event carrying o.s, o.S, o.z, o.ap and o.T
\* makes the parser publish exactly one LiquidationOrder frame, with side 'B'
\* for BUY and 'S' for SELL, and return 1 when the lowercased o.s is in the
\* SymbolSet and o.S is BUY or SELL; for a symbol outside the SymbolSet or any
\* other o.S it publishes nothing and returns 0.
C13_ForceOrderOneFrameInSymbolSet ==
    [][(Called("metrics") /\ ForceOrderComplete(last'.msg))
       => LET o == get(last'.msg, "o") IN
          IF to_lowercase(get(o, "s").v) \in SymbolSet /\ get(o, "S").v \in {"BUY", "SELL"}
          THEN /\ last'.ret = 1
               /\ sent' = sent + 1
               /\ bus' # <<>>
               /\ bus'[Len(bus')] = [by |-> "ws", id |-> last'.id,
                                      f |-> ExpectedLiquidation(last'.msg)]
          ELSE /\ last'.ret = 0
               /\ sent' = sent
               /\ bus' = bus]_vars

\* a BUY forceOrder of ETHUSDT, which is not in the SymbolSet, published
\* nothing
C13_Witness ==
    /\ last.parser = "metrics"
    /\ ForceOrderComplete(last.msg)
    /\ get(get(last.msg, "o"), "s").v = "ETHUSDT"
    /\ get(get(last.msg, "o"), "S").v = "BUY"
    /\ last.ret = 0
    /\ sent = 0

\* the payload is a trade event with all required fields, its price and
\* quantity parsing as numbers
TradeComplete(msg) ==
    /\ msg.k = "obj"
    /\ as_str(get(msg, "e"))
    /\ get(msg, "e").v = "trade"
    /\ ~Lacks("trade", FALSE, msg)
    /\ parse_f64_ok(get(msg, "p").v)
    /\ parse_f64_ok(get(msg, "q").v)

\* C14: for every trade event with all required fields the trade parser
\* publishes exactly one Trade frame if price > 0 and quantity > 0 and none if
\* price <= 0 or quantity <= 0; the side byte is 'S' (83) exactly when
\* buyer-is-maker (m) is true and 'B' (66) otherwise; the frame is 48 +
\* len(symbol) bytes long (55 for BTCUSDT).
C14_TradeFrameSideLength ==
    [][(Called("trade") /\ TradeComplete(last'.msg))
       => LET msg == last'.msg
              price == parse_f64(get(msg, "p").v)
              quantity == parse_f64(get(msg, "q").v)
          IN IF price > 0 /\ quantity > 0
             THEN /\ last'.ret = 1
                  /\ sent' = sent + 1
                  /\ bus' # <<>>
                  /\ LET e == bus'[Len(bus')] IN
                     /\ e.by = "ws" /\ e.id = last'.id
                     /\ e.f[1] = U32(1001)
                     /\ e.f[3] = Raw(get(msg, "s").v)
                     /\ e.f[6] = U8(IF get(msg, "m").v THEN 83 ELSE 66)
                     /\ <<e.f[4], e.f[5]>> = <<I64(get(msg, "t").v), I64(get(msg, "T").v)>>
                     /\ <<e.f[Len(e.f) - 1], e.f[Len(e.f)]>> = <<F64(price), F64(quantity)>>
                     /\ FrameLen(e.f) = 48 + len(get(msg, "s").v)
                     /\ get(msg, "s").v = "BTCUSDT" => FrameLen(e.f) = 55
             ELSE /\ last'.ret = 0
                  /\ sent' = sent
                  /\ bus' = bus]_vars

\* a trade of BTCUSDT whose buyer is the maker gave one frame of 55 bytes with
\* side 'S'
C14_Witness ==
    /\ last.parser = "trade"
    /\ TradeComplete(last.msg)
    /\ get(last.msg, "m").v
    /\ last.ret = 1
    /\ Len(bus) = 1
    /\ bus[1].f[6] = U8(83)
    /\ FrameLen(bus[1].f) = 55

\* C15: a depthUpdate without an integer pu field makes the futures depth
\* parser return 0 and publish neither a BinanceIncSeqNo nor an OrderBookInc
\* frame.
C15_FuturesDepthWithoutPuDropped ==
    [][(/\ Called("inc")
        /\ last'.flag
        /\ last'.msg.k = "obj"
        /\ get(last'.msg, "e") = JStr("depthUpdate")
        /\ ~as_i64(get(last'.msg, "pu")))
       => (/\ last'.ret = 0
           /\ sent' = sent
           /\ bus' = bus
           /\ \A i \in DOMAIN bus' : bus'[i].id # last'.id)]_vars

\* the futures depth parser was given a depthUpdate that lacks nothing but pu
\* and published nothing
C15_Witness ==
    /\ last.parser = "inc"
    /\ last.flag
    /\ ~Defective("inc", FALSE, last.msg)
    /\ get(last.msg, "e") = JStr("depthUpdate")
    /\ ~is_some(get(last.msg, "pu"))
    /\ last.ret = 0
    /\ sent = 0

\* C26: no two RestSummary1m frames, and no two RestSummary5m frames, are
\* published for the same symbol and close_time.
C26_OneSummaryPerBucket ==
    \A i, j \in DOMAIN bus :
        (/\ i < j
         /\ bus[i].f[1].wval \in {RestSummary1m, RestSummary5m}
         /\ bus[i].f[1] = bus[j].f[1])
            => ~(bus[i].f[3] = bus[j].f[3] /\ bus[i].f[4] = bus[j].f[4])

\* C27: in every Trade, OrderBookInc and LiquidationOrder frame published,
\* each 1-byte field (side, is_snapshot) is followed by 7 zero bytes before
\* the next field.
C27_ByteFieldsPadded ==
    \A i \in DOMAIN bus :
        bus[i].f[1].wval \in {TradeInfo, OrderBookInc, LiquidationOrder} =>
            \A k \in DOMAIN bus[i].f :
                bus[i].f[k].wire = "u8" =>
                    /\ k < Len(bus[i].f)
                    /\ bus[i].f[k + 1] = Pad(7)

-----------------------------------------------------------------------------
(* Properties of the REST fetcher.                                         *)

\* the request followed is a premium-index request answered with records
\* that all parse
PremiumAnswered ==
    /\ fetch_pc = "done"
    /\ fetch_req.endpoint = "premiumIndexKlines"
    /\ fetch_req.resp.st = "ok"
    /\ fetch_req.resp.body # <<>>
    /\ \A i \in DOMAIN fetch_req.resp.body : fetch_req.resp.body[i].valid

\* the greatest open_time among the returned records
LatestOpenTime(records) ==
    CHOOSE t \in {records[i].open_time : i \in DOMAIN records} :
        \A i \in DOMAIN records : records[i].open_time <= t

\* C9: fetch_premium_index selects a record whose open_time is close_time -
\* 60000 whenever one was returned; when none matches the fetch still succeeds
\* and the selected record is the one with the greatest open_time.
C9_SelectsMatchElseLatest ==
    PremiumAnswered =>
        LET records == fetch_req.resp.body
            expected == fetch_req.close_time - ONE_MINUTE_MILLIS
        IN /\ fetch_res.ok
           /\ IF \E i \in DOMAIN records : records[i].open_time = expected
              THEN fetch_res.v.open_time = expected
              ELSE fetch_res.v.open_time = LatestOpenTime(records)

\* the BarClose1m frame of a close time
ExpectedBarClose(ct) == <<U32(1020), I64(ct)>>

\* the positions of the bus that hold frames of the type, published in the tick
FramesOfTick(type, ct) ==
    {i \in DOMAIN bus : bus[i].id = ct /\ bus[i].f[1].wval = type}

\* C5: in every tick of run_rest_fetcher_with_sender exactly one BarClose1m
\* frame carrying the tick's close_time is published, after every
\* PremiumIndexKline and BinanceMktStatus frame of the tick, also when every
\* request of the tick failed; run_bar_close_timer publishes exactly one
\* BarClose1m per tick and nothing else.
C5_OneBarClosePerTickLast ==
    [][LET n == sent' - sent
           new == SubSeq(bus', Len(bus') - n + 1, Len(bus'))
           bars == {i \in DOMAIN new : new[i].f[1].wval = 1020}
       IN /\ n <= Len(bus')
          /\ IF pc = "delay"
             THEN /\ n >= 1
                  /\ bars = {n}
                  /\ new[n].f = ExpectedBarClose(tick_close_time)
                  /\ \A i \in 1..(n - 1) : new[i].f[1].wval \in {1015, 1021}
                  /\ mode = "timer" => n = 1
             ELSE bars = {}
          /\ (ticks' = ticks + 1 /\ ticks >= 1) =>
                Cardinality(FramesOfTick(1020, tick_close_time)) = 1
      ]_vars

\* a tick of the fetcher in which every premium-index request failed has
\* published its BarClose1m and no PremiumIndexKline
C5_Witness ==
    /\ mode = "rest"
    /\ one_min_result.some
    /\ \A i \in DOMAIN fetcher_symbols : ~one_min_result.val.premium_index[i].ok
    /\ FramesOfTick(1015, tick_close_time) = {}
    /\ bus[Len(bus)].f = ExpectedBarClose(tick_close_time)

\* the close time a frame on the REST path is stamped with: the close_time of
\* a BarClose1m, the timestamp of a TopLongShortRatio, and for the frames of
\* the one-minute pass the close time the pass was made for
Stamp(e) ==
    CASE e.f[1].wval = 1017 -> e.f[4].wval
      [] e.f[1].wval = 1020 -> e.f[2].wval
      [] OTHER -> e.id

\* C6: on the REST path all frames stamped with a close_time (the
\* PremiumIndexKline and BarClose1m of its one-minute pass, the
\* TopLongShortRatio frames of the five-minute pass scheduled for it) are
\* published before the next tick begins, and frames of different close_times
\* are never interleaved.
C6_FramesOfCloseTimeInItsTick ==
    mode = "rest" =>
        \A i \in DOMAIN bus :
            /\ bus[i].id = Stamp(bus[i])
            /\ \A j \in DOMAIN bus : i < j => Stamp(bus[i]) <= Stamp(bus[j])

\* C6 (amended): the frames published in a tick are published before the next
\* tick begins, so the frames of two ticks are never interleaved; a BarClose1m
\* carries the close_time of its tick; a TopLongShortRatio frame stamped T,
\* a five-minute boundary, is published in a tick at least 180 s later than T
\* and after the frames of the one-minute pass of that tick.
C6_FramesWithinTick ==
    mode = "rest" =>
        \A i \in DOMAIN bus :
            /\ bus[i].id <= tick_close_time
            /\ \A j \in DOMAIN bus : i < j => bus[i].id <= bus[j].id
            /\ bus[i].f[1].wval \in {1015, 1017, 1020, 1021}
            /\ bus[i].f[1].wval = 1020 => bus[i].f[2].wval = bus[i].id
            /\ bus[i].f[1].wval = 1017 =>
                  /\ bus[i].f[4].wval % 300000 = 0
                  /\ bus[i].id >= bus[i].f[4].wval + 180000
                  /\ \A j \in DOMAIN bus :
                        (i < j /\ bus[j].id = bus[i].id) => bus[j].f[1].wval = 1017

\* the TopLongShortRatio frame of the boundary 300000 follows the BarClose1m
\* of the tick 480000
C6_Witness ==
    /\ mode = "rest"
    /\ \E i \in DOMAIN bus :
          /\ bus[i].f[1].wval = 1017
          /\ bus[i].f[4].wval = 300000
          /\ bus[i].id = 480000
          /\ \E j \in DOMAIN bus : j < i /\ bus[j].f = ExpectedBarClose(480000)

\* C7: the five-minute pass for a boundary T is issued only after the
\* one-minute pass of a tick has completed and its BarClose1m is published,
\* only once 180 s have elapsed since T was scheduled, and at most once for T.
C7_FiveMinuteAfterDelayOnce ==
    [][Len(passes') > Len(passes) =>
          LET p == passes'[Len(passes')] IN
          /\ Len(passes') = Len(passes) + 1
          /\ one_min_result.some
          /\ one_min_result.val.close_time = tick_close_time
          /\ bus # <<>>
          /\ bus[Len(bus)].f = ExpectedBarClose(tick_close_time)
          /\ p.scheduled % 300000 = 0
          /\ p.ready >= p.scheduled + 180000
          /\ p.issued = now
          /\ now >= p.ready
          /\ p.tick = tick_close_time
          /\ \A i \in DOMAIN passes : passes[i].scheduled # p.scheduled
      ]_vars

\* the pass scheduled at 300000 was issued in the tick 480000
C7_Witness ==
    /\ Len(passes) = 1
    /\ passes[1].scheduled = 300000
    /\ passes[1].tick = 480000
    /\ passes[1].issued >= 480000

\* the symbol has an Ok result among the results
HasResult(results, symbol) ==
    \E i \in DOMAIN results : results[i].ok /\ results[i].v.symbol = symbol

\* the positions of the bus that hold TopLongShortRatio frames of the symbol
RatioFrames(symbol) ==
    {i \in DOMAIN bus : bus[i].f[1].wval = 1017 /\ bus[i].f[3].wval = symbol}

\* C8: send_five_minute_messages publishes at most one TopLongShortRatio frame
\* per symbol, none for a symbol whose top-account, top-position or
\* global-account result is missing, and a missing open-interest-hist result
\* does not suppress the frame: its four fields stay 0.
C8_OneRatioFramePerCompleteSymbol ==
    (fetch_pc = "done" /\ fetch_req.endpoint = "fiveMinute") =>
        \A k \in DOMAIN fetch_req.symbols :
            LET symbol == fetch_req.symbols[k]
                r == fetch_res.v
                complete == /\ HasResult(r.top_account, symbol)
                            /\ HasResult(r.top_position, symbol)
                            /\ HasResult(r.global_account, symbol)
            IN /\ Cardinality(RatioFrames(symbol)) <= 1
               /\ ~complete => RatioFrames(symbol) = {}
               /\ complete => Cardinality(RatioFrames(symbol)) = 1
               /\ (complete /\ ~HasResult(r.open_interest_hist, symbol)) =>
                     \A i \in RatioFrames(symbol) :
                        SubSeq(bus[i].f, 17, 20) = <<F64(0), F64(0), F64(0), I64(0)>>

\* of two symbols the first lacks only its open-interest-hist result and the
\* second its global-account result: one frame, of the first
C8_Witness ==
    /\ fetch_pc = "done"
    /\ fetch_req.endpoint = "fiveMinute"
    /\ fetch_req.symbols = <<"BTCUSDT", "ETHUSDT">>
    /\ HasResult(fetch_res.v.top_account, "BTCUSDT")
    /\ HasResult(fetch_res.v.top_position, "BTCUSDT")
    /\ HasResult(fetch_res.v.global_account, "BTCUSDT")
    /\ ~HasResult(fetch_res.v.open_interest_hist, "BTCUSDT")
    /\ HasResult(fetch_res.v.top_account, "ETHUSDT")
    /\ HasResult(fetch_res.v.top_position, "ETHUSDT")
    /\ ~HasResult(fetch_res.v.global_account, "ETHUSDT")
    /\ Cardinality(RatioFrames("BTCUSDT")) = 1
    /\ RatioFrames("ETHUSDT") = {}

\* the positions of the bus that hold the PremiumIndexKline frames of the
\* symbol published in the current tick
PremiumFrames(symbol) ==
    {i \in FramesOfTick(1015, tick_close_time) : bus[i].f[3].wval = symbol}

\* C10: in a one-minute tick a PremiumIndexKline frame is published for a
\* symbol if and only if its premium-index fetch succeeded; a failed
\* open-interest fetch leaves open_interest and transaction_time 0 and does
\* not suppress the frame; an Err of one symbol neither prevents the frames of
\* another symbol nor stops the tick, which ends with its BarClose1m.
C10_PremiumFrameIffFetched ==
    (mode = "rest" /\ one_min_result.some /\ ~five_min_result.some) =>
        LET r == one_min_result.val IN
        /\ bus[Len(bus)].f = ExpectedBarClose(tick_close_time)
        /\ \A k \in DOMAIN fetcher_symbols :
              LET symbol == fetcher_symbols[k] IN
              /\ r.premium_index[k].ok <=> PremiumFrames(symbol) # {}
              /\ Cardinality(PremiumFrames(symbol)) <= 1
              /\ (r.premium_index[k].ok /\ ~r.open_interest[k].ok) =>
                    \A i \in PremiumFrames(symbol) :
                        SubSeq(bus[i].f, 9, 10) = <<F64(0), I64(0)>>
              /\ (r.premium_index[k].ok /\ r.open_interest[k].ok) =>
                    \A i \in PremiumFrames(symbol) :
                        SubSeq(bus[i].f, 9, 10) =
                            <<F64(r.open_interest[k].v.open_interest),
                              I64(r.open_interest[k].v.timestamp)>>

\* of two symbols the premium-index fetch of the first failed and the
\* open-interest fetch of the second: one frame, of the second, then the
\* BarClose1m
C10_Witness ==
    /\ mode = "rest"
    /\ one_min_result.some
    /\ ~five_min_result.some
    /\ fetcher_symbols = <<"BTCUSDT", "ETHUSDT">>
    /\ ~one_min_result.val.premium_index[1].ok
    /\ one_min_result.val.premium_index[2].ok
    /\ ~one_min_result.val.open_interest[2].ok
    /\ PremiumFrames("BTCUSDT") = {}
    /\ Cardinality(PremiumFrames("ETHUSDT")) = 1
    /\ bus[Len(bus)].f = ExpectedBarClose(tick_close_time)

\* the request followed was a call of next_minute_boundary
BoundaryComputed ==
    fetch_pc = "done" /\ fetch_req.endpoint = "nextMinuteBoundary"

\* C23: the close_time of next_minute_boundary is a multiple of 60,000 ms,
\* later than the wall-clock time of the call and at most 60,000 ms later;
\* the tick is a 5-minute tick exactly when close_time is a multiple of
\* 300,000 ms.
C23_CloseTimeAligned ==
    BoundaryComputed =>
        LET close_time == fetch_res.v.close_time IN
        /\ close_time % 60000 = 0
        /\ close_time > fetch_req.total_millis
        /\ close_time <= fetch_req.total_millis + 60000
        /\ fetch_res.v.five_minute <=> close_time % 300000 = 0

\* called exactly on a minute boundary, next_minute_boundary gave the next
\* one, 60,000 ms later, which is a 5-minute boundary
C23_Witness ==
    /\ BoundaryComputed
    /\ fetch_req.total_millis = 240000
    /\ fetch_res.v.close_time = 300000
    /\ fetch_res.v.five_minute

\* the symbols a OneMinuteResult was requested for, in request order
RequestedSymbols(result) ==
    [i \in DOMAIN result.premium_index |->
        IF result.premium_index[i].ok THEN result.premium_index[i].v.symbol
        ELSE result.premium_index[i].v[1]]

\* C24: the symbol list changes only by a refresh, a refresh happens only in
\* a tick whose close_time is a 5-minute boundary and before the 1-minute
\* requests of that tick; a refresh that fails leaves the list as it was,
\* and the 1-minute requests of the tick are made for the list as it is
\* then.
C24_RefreshOnlyAtFiveMinutes ==
    [][/\ (fetcher_symbols' # fetcher_symbols \/ refresh_res' # refresh_res) =>
              pc = "refresh"
       /\ pc = "refresh" =>
              /\ tick_close_time % 300000 = 0
              /\ ~one_min_result.some
              /\ pc' = "delay"
              /\ tick_close_time' = tick_close_time
              /\ refresh_res'.some
              /\ refresh_res'.val.ok => fetcher_symbols' = refresh_res'.val.v
              /\ ~refresh_res'.val.ok => fetcher_symbols' = fetcher_symbols
       /\ (mode = "rest" /\ ~one_min_result.some /\ one_min_result'.some) =>
              /\ RequestedSymbols(one_min_result'.val) = fetcher_symbols
              /\ one_min_result'.val.close_time = tick_close_time
              /\ tick_close_time % 300000 = 0 =>
                    /\ pending_five_min.some
                    /\ pending_five_min.val.close_time = tick_close_time
                    /\ refresh_res.some
      ]_vars

\* the refresh of the tick of 300000 failed and the 1-minute requests of that
\* tick were made for the one symbol the fetcher had
C24_Witness ==
    /\ mode = "rest"
    /\ tick_close_time = 300000
    /\ refresh_res = Some(Err("request_error"))
    /\ fetcher_symbols = <<"BTCUSDT">>
    /\ one_min_result.some
    /\ RequestedSymbols(one_min_result.val) = <<"BTCUSDT">>

\* C25: after the fetcher has replaced its symbol list, a parse of a complete
\* mark-price event publishes frames exactly when the symbol of the event is
\* in the refreshed list.
C25_ParserFollowsRefresh ==
    [][(/\ Called("metrics")
        /\ refresh_res.some
        /\ refresh_res.val.ok)
          => (last'.ret > 0 <=>
                 \E k \in DOMAIN fetcher_symbols : fetcher_symbols[k] = get(last'.msg, "s").v)
      ]_vars

-----------------------------------------------------------------------------
(* Properties of the channels and of Proxy::run.                           *)

\* the frames of session i among the entries seq of a channel, in their order
FramesOf(seq, i) ==
    LET OfSession(e) == e.id = i IN SelectSeq(seq, OfSession)

\* a is the BinanceIncSeqNo frame of the depth event of the OrderBookInc frame b
Companion(a, b) ==
    /\ a.f[1].wval = BinanceIncSeqNo
    /\ a.id = b.id
    /\ a.f[3] = b.f[3]
    /\ a.f[5] = b.f[5]
    /\ a.f[6] = b.f[4]

\* every OrderBookInc frame of seq comes right after its companion
CompanionsAdjacent(seq) ==
    \A p \in DOMAIN seq :
        seq[p].f[1].wval = OrderBookInc => p > 1 /\ Companion(seq[p - 1], seq[p])

\* C16, as stated: in the order of the frames of a channel, every futures
\* OrderBookInc frame comes right after its companion BinanceIncSeqNo frame
\* (same symbol, same update identifiers), also when another session sends
\* on the same channel.
C16_CompanionAdjacentOnChannel ==
    \A c \in Channels : CompanionsAdjacent(published[c])

\* C16, amended: among the frames of its own session, in the order they were
\* sent on the channel, every futures OrderBookInc frame comes right after
\* its companion BinanceIncSeqNo frame; frames of other sessions can lie
\* between the two.
C16_CompanionAdjacentPerSession ==
    \A i \in DOMAIN Sessions :
        CompanionsAdjacent(FramesOf(published[Sessions[i].ch], i))

\* an OrderBookInc frame was sent right after a frame of another session,
\* which came after the companion
C16_Witness ==
    \E p \in DOMAIN published["inc"] :
        /\ p > 2
        /\ published["inc"][p].f[1].wval = OrderBookInc
        /\ published["inc"][p - 1].id # published["inc"][p].id
        /\ Companion(published["inc"][p - 2], published["inc"][p])

\* session i is at a send of its parse call and takes it in this step
Sends(i) ==
    /\ sessions[i].pending # <<>>
    /\ sessions'[i].pending = Tail(sessions[i].pending)

\* C17: with a receiver attached, a send on a channel never blocks and never
\* fails, however far behind the receiver is: a session at a send can always
\* take it, the frame becomes the newest frame of the channel, the call
\* counts it, and a call that has returned has counted every frame it built.
C17_SendNeverBlocksNorFails ==
    /\ [](\A i \in DOMAIN Sessions :
            /\ sessions[i].pending # <<>> => ENABLED SessionSend(i)
            /\ sessions[i].ret + Len(sessions[i].pending) = sessions[i].frames)
    /\ [][\A i \in DOMAIN Sessions :
            Sends(i) =>
                LET c == Sessions[i].ch IN
                /\ chan'[c].sent = chan[c].sent + 1
                /\ chan'[c].buf[Len(chan'[c].buf)] =
                       [by |-> "ws", id |-> i, f |-> Head(sessions[i].pending)]
                /\ sessions'[i].ret = sessions[i].ret + 1]_vars

\* a depth call has returned 2 after sends on a full channel whose receiver
\* has not received anything and has lost frames
C17_Witness ==
    /\ rx_next["inc"] = 0
    /\ chan["inc"].sent > BusCapacity
    /\ Len(chan["inc"].buf) = BusCapacity
    /\ sessions[1].pending = <<>>
    /\ sessions[1].ret = 2
    /\ chan["inc"].buf[BusCapacity].id = 1

\* this step sends on the full channel c and overwrites a frame that the
\* receiver of Proxy has not received
Dropped(c) ==
    /\ chan'[c].sent > chan[c].sent
    /\ Len(chan[c].buf) = BusCapacity
    /\ rx_next[c] <= chan[c].sent - BusCapacity

\* C18: whenever a frame that a receiver has not received is dropped from the
\* full channel, a counter of that receiver is incremented, and the counters
\* of a receiver never decrease.  The counters Proxy keeps per receiver are
\* inc_count and trade_count.
C18_LossCounted ==
    [][\A c \in Channels :
          /\ Dropped(c) => proxy_count'[c] > proxy_count[c]
          /\ proxy_count'[c] >= proxy_count[c]]_vars

\* C19: on each channel the frames Proxy::run forwards are frames sent on
\* that channel, and two frames of one producer are forwarded in the order
\* in which the producer sent them, none of them twice.
C19_ForwardedInSendOrder ==
    /\ \A k \in DOMAIN forwarded :
          /\ forwarded[k].pos \in DOMAIN published[forwarded[k].ch]
          /\ published[forwarded[k].ch][forwarded[k].pos] = forwarded[k].entry
    /\ \A k, l \in DOMAIN forwarded :
          (/\ k < l
           /\ forwarded[k].ch = forwarded[l].ch
           /\ forwarded[k].entry.id = forwarded[l].entry.id)
              => forwarded[k].pos < forwarded[l].pos

\* Proxy::run has forwarded two frames of the depth session after it lost the
\* first frames of the channel, and a frame of the other session between them
C19_Witness ==
    \E k, l, n \in DOMAIN forwarded :
        /\ k < n /\ n < l
        /\ forwarded[1].pos > 1
        /\ default_parsers = {}
        /\ forwarded[k].ch = "inc" /\ forwarded[l].ch = "inc" /\ forwarded[n].ch = "inc"
        /\ forwarded[k].entry.id = 1 /\ forwarded[l].entry.id = 1
        /\ forwarded[n].entry.id = 2
        /\ chan["inc"].sent > BusCapacity

-----------------------------------------------------------------------------
(* Properties of the loops under shutdown.                                 *)

\* C20: once the global shutdown signal is asserted, the loops of
\* rest_fetcher.rs (run_rest_fetcher_with_sender, run_bar_close_timer) begin
\* no further tick and publish no further frame.
C20_NothingAfterShutdown ==
    [][shutdown => (ticks' = ticks /\ sent' = sent /\ bus' = bus)]_vars

-----------------------------------------------------------------------------
(* Properties of WsConnector::connect.                                     *)

\* the entries of conn_log that are connection attempts
AttemptsAt == {k \in DOMAIN conn_log : conn_log[k].ev = "connect"}

\* entry k of conn_log is an attempt that failed with a retry-eligible error:
\* Io with one of the four connection kinds, or Http with a non-2xx status
RetryEligibleAt(k) ==
    /\ k \in AttemptsAt
    /\ \/ /\ conn_log[k].what.variant = "Io"
          /\ conn_log[k].what.io_kind \in {"ConnectionRefused", "ConnectionAborted",
                                           "ConnectionReset", "NotConnected"}
       \/ /\ conn_log[k].what.variant = "Http"
          /\ ~(conn_log[k].what.status \in 200..299)

\* entry k of conn_log is an attempt that failed with any other error
FatalAt(k) ==
    /\ k \in AttemptsAt
    /\ conn_log[k].what # Connected
    /\ ~RetryEligibleAt(k)

\* C21: connect makes at most 5 attempts and terminates; an attempt after
\* the first follows a retry-eligible error and a sleep of 1 s; any other
\* error returns Err at once; five retry-eligible failures return Err; an
\* unparsable url returns Err before any attempt.
C21_ConnectRetries ==
    /\ [](/\ Cardinality(AttemptsAt) <= 5
          /\ \A k \in AttemptsAt :
                k > 1 => /\ k > 2
                         /\ conn_log[k - 1] = Slept(1000)
                         /\ RetryEligibleAt(k - 2)
          /\ \A k \in AttemptsAt :
                FatalAt(k) => /\ k = Len(conn_log)
                              /\ conn_pc = "done"
                              /\ ~conn_res.ok
          /\ (Cardinality({k \in AttemptsAt : RetryEligibleAt(k)}) = 5 /\ conn_pc # "sleep")
                => conn_pc = "done" /\ ~conn_res.ok
          /\ ~conn_url.valid =>
                /\ conn_log = <<>>
                /\ conn_pc \in {"parse", "done"}
                /\ conn_pc = "done" => ~conn_res.ok)
    /\ <>(conn_pc = "done")

\* connect has returned Err after five retry-eligible failures and five sleeps
C21_Witness ==
    /\ conn_pc = "done"
    /\ ~conn_res.ok
    /\ Cardinality({k \in AttemptsAt : RetryEligibleAt(k)}) = 5
    /\ Len(conn_log) = 10

\* the entries of conn_log that are frames sent
FramesAt == {k \in DOMAIN conn_log : conn_log[k].ev = "text"}

\* C22: connect returns Ok only after it sent the subscribe payload once, as
\* a text frame, on the connection it returns, which is the last one opened,
\* and no other frame was sent; and after a send that failed connect returns
\* Err without another connection attempt.
C22_SubscribedOnceBeforeOk ==
    /\ conn_res.ok =>
          /\ FramesAt = {Len(conn_log)}
          /\ conn_log[Len(conn_log)] = SentText(conn_res.conn, conn_url.sub_msg)
          /\ conn_log[Len(conn_log) - 1] = Attempt(conn_res.conn, Connected)
          /\ conn_res.conn = Cardinality(AttemptsAt)
    /\ ~conn_res.ok => FramesAt = {}
    /\ \A k \in DOMAIN conn_log :
          conn_log[k].ev = "send failed" =>
              /\ k = Len(conn_log)
              /\ conn_pc = "done"
              /\ ~conn_res.ok

\* connect has returned the third connection it tried, after two failures
C22_Witness ==
    /\ conn_pc = "done"
    /\ conn_res.ok
    /\ conn_res.conn = 3
    /\ Cardinality(AttemptsAt) = 3
    /\ conn_log[Len(conn_log)] = SentText(3, "SUBSCRIBE")


(***************************************************************************)
(* IncMsg as a value: create, then any sequence of set_bid_level and       *)
(* set_ask_level calls, then to_bytes.  fetch_req holds the call being     *)
(* made (with the message it is made on), fetch_res the message after it.  *)
(***************************************************************************)

MaxLevels == 2

IncSymbols == {"BTCUSDT", "BNB"}

IncLevels == {Level_from_values(100, 1), Level_from_values(250, 0)}

\* indices at, below and beyond both counts and levels.len()
IncIndices == 0..(2 * MaxLevels + 1)

\* IncMsg::size
IncMsg_size(m) == 4 + 4 + len(m.symbol) + 8 + 8 + 8 + 8 + 4 + 4 + (Len(m.levels) * 16)

InitIncMsg ==
    /\ bus = <<>>
    /\ ConnectIdle
    /\ RetryIdle
    /\ join_slots = <<>>
    /\ sent = 0
    /\ ParsersIdle
    /\ RestIdle
    /\ ProxyIdle
    /\ fetch_pc = "create"
    /\ fetch_res = [ok |-> FALSE, v |-> "none"]
    /\ fetch_req \in {[endpoint |-> "IncMsg", op |-> "create", symbol |-> s,
                       bids_count |-> b, asks_count |-> a] :
                        s \in IncSymbols, b \in 0..MaxLevels, a \in 0..MaxLevels}

IncMsgCreate ==
    /\ fetch_pc = "create"
    /\ fetch_res' = Ok(IncMsg_create(fetch_req.symbol, 1, 2, 3, FALSE,
                                     fetch_req.bids_count, fetch_req.asks_count))
    /\ fetch_pc' = "built"
    /\ UNCHANGED <<join_slots, retryVars, connVars, proxyVars, bus, sent, parserVars, restVars, fetch_req>>

IncMsgSetBidLevel ==
    /\ fetch_pc = "built"
    /\ \E index \in IncIndices, level \in IncLevels :
         /\ fetch_req' = [endpoint |-> "IncMsg", op |-> "set_bid_level",
                          index |-> index, level |-> level, on |-> fetch_res.v]
         /\ fetch_res' = Ok(set_bid_level(fetch_res.v, index, level))
    /\ UNCHANGED <<join_slots, retryVars, connVars, proxyVars, bus, sent, parserVars, restVars, fetch_pc>>

IncMsgSetAskLevel ==
    /\ fetch_pc = "built"
    /\ \E index \in IncIndices, level \in IncLevels :
         /\ fetch_req' = [endpoint |-> "IncMsg", op |-> "set_ask_level",
                          index |-> index, level |-> level, on |-> fetch_res.v]
         /\ fetch_res' = Ok(set_ask_level(fetch_res.v, index, level))
    /\ UNCHANGED <<join_slots, retryVars, connVars, proxyVars, bus, sent, parserVars, restVars, fetch_pc>>

IncMsgToBytes ==
    /\ fetch_pc = "built"
    /\ fetch_req' = [endpoint |-> "IncMsg", op |-> "to_bytes", on |-> fetch_res.v]
    /\ fetch_res' = Ok([frame |-> IncMsg_to_bytes(fetch_res.v),
                        size |-> IncMsg_size(fetch_res.v)])
    /\ fetch_pc' = "encoded"
    /\ UNCHANGED <<join_slots, retryVars, connVars, proxyVars, bus, sent, parserVars, restVars>>

NextIncMsg ==
    \/ IncMsgCreate
    \/ IncMsgSetBidLevel
    \/ IncMsgSetAskLevel
    \/ IncMsgToBytes

SpecIncMsg == InitIncMsg /\ [][NextIncMsg]_vars

(***************************************************************************)
(* Properties of IncMsg                                                    *)
(***************************************************************************)

\* the levels of m with the 0-based slot replaced by level
WithSlot(m, slot, level) ==
    [i \in 1..Len(m.levels) |-> IF i = slot + 1 THEN level ELSE m.levels[i]]

\* C28: after IncMsg::create(bids_count, asks_count) and any sequence of
\* set_bid_level / set_ask_level calls with arbitrary indices, levels.len()
\* is bids_count + asks_count and the encoded frame is
\* 48 + len(symbol) + 16 * (bids_count + asks_count) bytes long;
\* set_bid_level(i) changes only slot i and only when i < bids_count,
\* set_ask_level(i) changes only slot bids_count + i and only when
\* i < asks_count, and an out-of-range call changes nothing.
C28_IncMsgLevels ==
    /\ fetch_pc = "built" =>
         /\ Len(fetch_res.v.levels) = fetch_res.v.bids_count + fetch_res.v.asks_count
         /\ fetch_req.op = "set_bid_level" =>
              fetch_res.v =
                IF fetch_req.index < fetch_req.on.bids_count
                THEN [fetch_req.on EXCEPT
                        !.levels = WithSlot(fetch_req.on, fetch_req.index, fetch_req.level)]
                ELSE fetch_req.on
         /\ fetch_req.op = "set_ask_level" =>
              fetch_res.v =
                IF fetch_req.index < fetch_req.on.asks_count
                THEN [fetch_req.on EXCEPT
                        !.levels = WithSlot(fetch_req.on,
                                            fetch_req.on.bids_count + fetch_req.index,
                                            fetch_req.level)]
                ELSE fetch_req.on
    /\ fetch_pc = "encoded" =>
         /\ FrameLen(fetch_res.v.frame) =
              48 + len(fetch_req.on.symbol)
                 + 16 * (fetch_req.on.bids_count + fetch_req.on.asks_count)
         /\ fetch_res.v.size = FrameLen(fetch_res.v.frame)

\* a bid call whose index is a slot of the asks left the message alone, and
\* an ask slot has been written
C28_Witness ==
    /\ fetch_pc = "built"
    /\ fetch_req.op = "set_bid_level"
    /\ fetch_req.index >= fetch_req.on.bids_count
    /\ fetch_req.index < Len(fetch_req.on.levels)
    /\ fetch_res.v.bids_count = MaxLevels
    /\ fetch_res.v.levels[MaxLevels + 1] = Level_from_values(100, 1)
    /\ fetch_res.v.levels[1] = Level_from_values(250, 0)


-----------------------------------------------------------------------------
(* rest_fetcher.rs: fetch_with_retry, followed request by request.  What   *)
(* a request meets (a transport error, or a response with its status and   *)
(* body) is chosen when the request is made.                               *)

FETCH_MAX_RETRIES == 2
RETRY_SLEEP_MS == 100

FetchError(variant, code, detail) == [variant |-> variant, code |-> code, detail |-> detail]

\* the bytes of a response: a gzip stream (valid or corrupt) of a text, or the text
RawBody(gzip, valid, text) == [gzip |-> gzip, valid |-> valid, text |-> text]

RawBodies ==
    {RawBody(FALSE, TRUE, ""), RawBody(FALSE, TRUE, " \n"), RawBody(FALSE, TRUE, "[]"),
     RawBody(TRUE, TRUE, "[]"), RawBody(TRUE, FALSE, "")}

\* what request.send() and response.bytes() give: Err(e) of send (a timeout
\* or not), or a response with its status, whose bytes can or cannot be read
SendError(is_timeout) ==
    [sent |-> FALSE, is_timeout |-> is_timeout, status |-> 0, read |-> FALSE,
     raw_body |-> RawBody(FALSE, TRUE, "")]
HttpResponse(status, read, raw_body) ==
    [sent |-> TRUE, is_timeout |-> FALSE, status |-> status, read |-> read,
     raw_body |-> raw_body]

RetryStatuses == {200, 404, 503}

RequestOutcomes ==
    {SendError(t) : t \in BOOLEAN}
    \cup {HttpResponse(st, FALSE, RawBody(FALSE, TRUE, "")) : st \in RetryStatuses}
    \cup {HttpResponse(st, TRUE, b) : st \in RetryStatuses, b \in RawBodies}

\* body.trim().is_empty() on the texts of the model
trim_is_empty(text) == text \in {"", " \n"}

\* String::from_utf8_lossy on a gzip stream gives its bytes as text
decode_response_body(label, body) ==
    LET is_bapi == label \in {"BapiBorrowRepay"}
        is_gzip == body.gzip
    IN
    IF is_bapi /\ is_gzip
    THEN IF body.valid THEN Ok(body.text)
         ELSE Err(FetchError("Request", 0, "gzip decode error"))
    ELSE Ok(IF body.gzip THEN "<1f><8b>" ELSE body.text)

\* one pass of the loop body without the empty-body test
attempt_result_keep_blank(label, outcome) ==
    IF outcome.sent
    THEN IF ~outcome.read THEN Err(FetchError("Request", 0, "read body error"))
         ELSE LET body == decode_response_body(label, outcome.raw_body) IN
              IF ~body.ok THEN body
              ELSE IF ~is_success(outcome.status)
                   THEN Err(FetchError("Http", outcome.status, ""))
              ELSE body
    ELSE IF outcome.is_timeout THEN Err(FetchError("Timeout", 0, ""))
         ELSE Err(FetchError("Request", 0, "send error"))

\* one pass of the loop body of fetch_with_retry from the result of send on:
\* Ok(body) where it returns, Err(e) where it assigns e to last_error
attempt_result(label, outcome) ==
    IF outcome.sent
    THEN IF ~outcome.read THEN Err(FetchError("Request", 0, "read body error"))
         ELSE LET body == decode_response_body(label, outcome.raw_body) IN
              IF ~body.ok THEN body
              ELSE IF ~is_success(outcome.status)
                   THEN Err(FetchError("Http", outcome.status, ""))
              ELSE IF trim_is_empty(body.v) THEN Err(FetchError("EmptyResponse", 0, ""))
              ELSE body
    ELSE IF outcome.is_timeout THEN Err(FetchError("Timeout", 0, ""))
         ELSE Err(FetchError("Request", 0, "send error"))

\* entries of retry_log
Requested(outcome) == [ev |-> "request", ms |-> 0, outcome |-> outcome]
RetrySlept(ms) == [ev |-> "sleep", ms |-> ms, outcome |-> SendError(FALSE)]

InitRetry ==
    /\ bus = <<>>
    /\ sent = 0
    /\ ParsersIdle
    /\ RestIdle
    /\ FetchIdle
    /\ ProxyIdle
    /\ ConnectIdle
    /\ join_slots = <<>>
    /\ retry_label \in {"PremiumIndex", "BapiBorrowRepay"}
    /\ retry_pc = "top"
    /\ attempt = 0
    /\ last_error = FetchError("Request", 0, "not executed")
    /\ retry_log = <<>>
    /\ retry_res = [ok |-> FALSE, v |-> "none"]

\* if attempt > 0 { sleep(100 ms) }
FetchRetrySleep ==
    /\ retry_pc = "top"
    /\ attempt > 0
    /\ attempt < FETCH_MAX_RETRIES
    /\ retry_log' = Append(retry_log, RetrySlept(RETRY_SLEEP_MS))
    /\ retry_pc' = "send"
    /\ UNCHANGED <<join_slots, bus, sent, parserVars, restVars, fetchVars, proxyVars, connVars,
                   retry_label, attempt, last_error, retry_res>>

\* request.send().await and the match on its result
FetchRetryRequest ==
    /\ \/ retry_pc = "top" /\ attempt = 0 /\ attempt < FETCH_MAX_RETRIES
       \/ retry_pc = "send"
    /\ \E outcome \in RequestOutcomes :
         LET r == attempt_result(retry_label, outcome) IN
         /\ retry_log' = Append(retry_log, Requested(outcome))
         /\ IF r.ok
            THEN /\ retry_res' = r
                 /\ retry_pc' = "done"
                 /\ UNCHANGED <<attempt, last_error>>
            ELSE /\ last_error' = r.v
                 /\ attempt' = attempt + 1
                 /\ retry_pc' = "top"
                 /\ UNCHANGED retry_res
    /\ UNCHANGED <<join_slots, bus, sent, parserVars, restVars, fetchVars, proxyVars, connVars,
                   retry_label>>

\* Err(last_error) after the loop
FetchRetryGiveUp ==
    /\ retry_pc = "top"
    /\ attempt >= FETCH_MAX_RETRIES
    /\ retry_res' = Err(last_error)
    /\ retry_pc' = "done"
    /\ UNCHANGED <<join_slots, bus, sent, parserVars, restVars, fetchVars, proxyVars, connVars,
                   retry_label, attempt, last_error, retry_log>>

NextRetry ==
    \/ FetchRetrySleep
    \/ FetchRetryRequest
    \/ FetchRetryGiveUp

SpecRetry == InitRetry /\ [][NextRetry]_vars

(***************************************************************************)
(* Properties of fetch_with_retry                                          *)
(***************************************************************************)

\* the requests made so far, in order
RequestsAt == SelectSeq(retry_log, LAMBDA e : e.ev = "request")


\* the text of the body of a response that was read and decoded
TextOf(outcome) == decode_response_body(retry_label, outcome.raw_body).v

\* an attempt got a 2xx response with a body that is not empty; trimmed says
\* whether a body of white space counts as empty
Succeeded(outcome, trimmed) ==
    /\ outcome.sent
    /\ outcome.read
    /\ decode_response_body(retry_label, outcome.raw_body).ok
    /\ is_success(outcome.status)
    /\ IF trimmed THEN ~trim_is_empty(TextOf(outcome)) ELSE TextOf(outcome) # ""

\* the error a failed attempt ended in
IsErrorOf(e, outcome) ==
    IF ~outcome.sent
    THEN e.variant = (IF outcome.is_timeout THEN "Timeout" ELSE "Request")
    ELSE IF ~outcome.read \/ ~decode_response_body(retry_label, outcome.raw_body).ok
    THEN e.variant = "Request"
    ELSE IF ~is_success(outcome.status)
    THEN e.variant = "Http" /\ e.code = outcome.status
    ELSE e.variant = "EmptyResponse"

FetchWithRetryContract(trimmed) ==
    /\ Len(RequestsAt) <= 2
    /\ \A k \in 2..Len(RequestsAt) : ~Succeeded(RequestsAt[k - 1].outcome, trimmed)
    /\ retry_pc = "done" =>
         LET n == Len(RequestsAt)
             outcome == RequestsAt[n].outcome
         IN
         /\ n >= 1
         /\ IF Succeeded(outcome, trimmed)
            THEN retry_res.ok /\ retry_res.v = TextOf(outcome)
            ELSE /\ ~retry_res.ok
                 /\ n = 2
                 /\ IsErrorOf(retry_res.v, outcome)

\* C29 as stated: fetch_with_retry issues at most 2 requests, the second only
\* if the first ended in a transport error, a body read/decode error, a
\* non-2xx status or an empty body; it returns Ok(body) at the first 2xx
\* response with a non-empty body and otherwise the error of the last attempt.
C29_AsStated == FetchWithRetryContract(FALSE)

\* C29, amended: the same, where a body is empty when nothing but white space
\* is in it (body.trim().is_empty()): such a 2xx response is retried too and
\* ends in EmptyResponse.
C29_FetchWithRetry == FetchWithRetryContract(TRUE)

\* a 200 response with a body of white space was retried, and the second
\* request returned the body
C29_Witness ==
    /\ retry_pc = "done"
    /\ Len(RequestsAt) = 2
    /\ RequestsAt[1].outcome = HttpResponse(200, TRUE, RawBody(FALSE, TRUE, " \n"))
    /\ retry_res.ok
    /\ retry_res.v = "[]"
    /\ Len(retry_log) = 3
    /\ retry_log[2] = RetrySlept(RETRY_SLEEP_MS)


(***************************************************************************)
(* Properties of fetch_ratio_metrics and fetch_open_interest_hist          *)
(***************************************************************************)

\* fetch_ratio_metrics or fetch_open_interest_hist has returned
HistFetched ==
    /\ fetch_pc = "done"
    /\ fetch_req.endpoint \in {"topLongShortAccountRatio", "openInterestHist"}

\* the (1-based) entries of the response whose timestamp is close_time or
\* close_time + 1
MatchingEntries ==
    {i \in DOMAIN fetch_req.resp.body :
        LET ts == get(fetch_req.resp.body[i], "timestamp") IN
        /\ to_i64_ok(ts)
        /\ to_i64(ts) \in {fetch_req.close_time, fetch_req.close_time + 1}}

\* the data returned is that of entry i of the response
ReturnedFrom(i) ==
    LET entry == fetch_req.resp.body[i] IN
    /\ fetch_res.v.timestamp = to_i64(get(entry, "timestamp"))
    /\ IF fetch_req.endpoint = "openInterestHist"
       THEN fetch_res.v.sum_open_interest = parse_value(get(entry, "sumOpenInterest"))
       ELSE fetch_res.v.long_value = parse_value(get(entry, "longAccount"))

\* success is with the first entry of a matching timestamp, and the timestamp
\* returned is close_time or close_time + 1
SucceedsWithFirstMatch ==
    HistFetched /\ fetch_res.ok =>
        /\ fetch_req.resp.st = "ok"
        /\ MatchingEntries # {}
        /\ ReturnedFrom(CHOOSE i \in MatchingEntries : \A j \in MatchingEntries : i <= j)
        /\ fetch_res.v.timestamp \in {fetch_req.close_time, fetch_req.close_time + 1}

\* C30 as stated: fetch_ratio_metrics and fetch_open_interest_hist succeed only
\* with the first entry whose timestamp is close_time or close_time + 1; if
\* no returned entry has such a timestamp the result is Err(MatchFailure),
\* with no fallback to another entry; the timestamp returned is close_time or
\* close_time + 1.
C30_AsStated ==
    /\ SucceedsWithFirstMatch
    /\ HistFetched /\ fetch_req.resp.st = "ok" /\ MatchingEntries = {} =>
         ~fetch_res.ok /\ fetch_res.v = "MatchFailure"

\* C30, amended: the same, where Err(MatchFailure) is the result when the
\* response has entries and none has such a timestamp; a response without
\* entries gives Err(EmptyResponse).
C30_MatchOrFail ==
    /\ SucceedsWithFirstMatch
    /\ HistFetched /\ fetch_req.resp.st = "ok" /\ MatchingEntries = {} =>
         /\ ~fetch_res.ok
         /\ fetch_res.v = IF fetch_req.resp.body = <<>> THEN "EmptyResponse"
                          ELSE "MatchFailure"

\* two entries, neither of a matching timestamp: Err(MatchFailure)
C30_Witness ==
    /\ HistFetched
    /\ fetch_req.resp.st = "ok"
    /\ Len(fetch_req.resp.body) = 2
    /\ MatchingEntries = {}
    /\ ~fetch_res.ok
    /\ fetch_res.v = "MatchFailure"


(***************************************************************************)
(* Properties of the snapshot and depth parsers on order books             *)
(***************************************************************************)

\* the bids and the asks of the payload of a parser
BookBids(parser, msg) == get(msg, IF parser = "snapshot" THEN "bids" ELSE "b").v
BookAsks(parser, msg) == get(msg, IF parser = "snapshot" THEN "asks" ELSE "a").v

\* the frames the call id has on the bus after the step
FramesOfCallAfter(id) == {i \in 1..Len(bus') : bus'[i].id = id}

\* C31: for every snapshot payload with s, lastUpdateId, bids and asks the
\* snapshot parser publishes exactly one OrderBookInc frame, with
\* is_snapshot = 1, first_update_id = final_update_id = lastUpdateId + 1,
\* timestamp = 0, bids_count = len(bids) and asks_count = len(asks).
C31_SnapshotOneFrame ==
    [][(/\ Called("snapshot")
        /\ ~Defective("snapshot", FALSE, last'.msg))
       => LET msg == last'.msg
              f == bus'[Len(bus')].f
              n == Len(BookBids("snapshot", msg)) + Len(BookAsks("snapshot", msg))
          IN
          /\ sent' = sent + 1
          /\ last'.ret = 1
          /\ Cardinality(FramesOfCallAfter(last'.id)) = 1
          /\ bus'[Len(bus')].id = last'.id
          /\ Len(f) = 10 + 2 * n
          /\ SubSeq(f, 1, 10) =
               <<U32(1005), U32(len(get(msg, "s").v)), Raw(get(msg, "s").v),
                 I64(get(msg, "lastUpdateId").v + 1),
                 I64(get(msg, "lastUpdateId").v + 1),
                 I64(0), U8(1), Pad(7),
                 U32(Len(BookBids("snapshot", msg))),
                 U32(Len(BookAsks("snapshot", msg)))>>]_vars

\* the snapshot parser has published the frame of a book of two bids and one
\* ask whose lastUpdateId is 20
C31_Witness ==
    /\ last.parser = "snapshot"
    /\ ~Defective("snapshot", FALSE, last.msg)
    /\ get(last.msg, "lastUpdateId").v = 20
    /\ Len(get(last.msg, "bids").v) = 2
    /\ Len(get(last.msg, "asks").v) = 1
    /\ last.ret = 1
    /\ Len(bus) = 1
    /\ bus[1].f[4] = I64(21)
    /\ bus[1].f[7] = U8(1)

\* the level entry is an array of at least two strings
TwoStrings(item) ==
    /\ item.k = "arr"
    /\ Len(item.v) >= 2
    /\ item.v[1].k = "str"
    /\ item.v[2].k = "str"

\* the entry is well formed: an array of at least two strings that parse
WellFormed(item) ==
    TwoStrings(item) /\ parse_f64_ok(item.v[1].v) /\ parse_f64_ok(item.v[2].v)

\* price and amount of the slot of a level entry: the numbers of a
\* well-formed entry; 0 for each string that does not parse; 0 and 0 for an
\* entry that is not an array of two strings
SlotOf(item) ==
    IF TwoStrings(item)
    THEN <<F64(IF parse_f64_ok(item.v[1].v) THEN parse_f64(item.v[1].v) ELSE 0),
           F64(IF parse_f64_ok(item.v[2].v) THEN parse_f64(item.v[2].v) ELSE 0)>>
    ELSE <<F64(0), F64(0)>>

\* some entry of the book is malformed
HasMalformed(parser, msg) ==
    \/ \E k \in DOMAIN BookBids(parser, msg) : ~WellFormed(BookBids(parser, msg)[k])
    \/ \E k \in DOMAIN BookAsks(parser, msg) : ~WellFormed(BookAsks(parser, msg)[k])

\* C37: a depth or snapshot payload whose bids or asks hold a malformed level
\* entry is still published: bids_count and asks_count are the lengths of the
\* arrays, every well-formed entry is in the slot of its index (bids first,
\* then asks), and the slot of a malformed entry carries 0 for the price, the
\* amount or both (0 for each string that does not parse, 0 and 0 for an
\* entry that is not an array of two strings).
C37_MalformedLevelsPublished ==
    [][(\E parser \in {"inc", "snapshot"} :
          /\ Called(parser)
          /\ ~Defective(parser, last'.flag, last'.msg))
       => LET parser == last'.parser
              bids == BookBids(parser, last'.msg)
              asks == BookAsks(parser, last'.msg)
              f == bus'[Len(bus')].f
          IN
          /\ last'.ret = IF parser = "inc" THEN 2 ELSE 1
          /\ bus'[Len(bus')].id = last'.id
          /\ f[1] = U32(1005)
          /\ f[9] = U32(Len(bids))
          /\ f[10] = U32(Len(asks))
          /\ Len(f) = 10 + 2 * (Len(bids) + Len(asks))
          /\ \A k \in DOMAIN bids :
               /\ <<f[10 + 2 * k - 1], f[10 + 2 * k]>> = SlotOf(bids[k])
               /\ ~WellFormed(bids[k]) =>
                    f[10 + 2 * k - 1] = F64(0) \/ f[10 + 2 * k] = F64(0)
          /\ \A k \in DOMAIN asks :
               LET slot == Len(bids) + k IN
               /\ <<f[10 + 2 * slot - 1], f[10 + 2 * slot]>> = SlotOf(asks[k])
               /\ ~WellFormed(asks[k]) =>
                    f[10 + 2 * slot - 1] = F64(0) \/ f[10 + 2 * slot] = F64(0)]_vars

\* the depth parser has published a book whose first bid is not an array and
\* whose second bid is well formed; the second slot holds that bid
C37_Witness ==
    /\ last.parser = "inc"
    /\ last.ret = 2
    /\ Len(get(last.msg, "b").v) = 2
    /\ ~TwoStrings(get(last.msg, "b").v[1])
    /\ WellFormed(get(last.msg, "b").v[2])
    /\ HasMalformed("inc", last.msg)
    /\ Len(bus) = 2
    /\ bus[2].f[9] = U32(2)
    /\ <<bus[2].f[11], bus[2].f[12]>> = <<F64(0), F64(0)>>
    /\ <<bus[2].f[13], bus[2].f[14]>> = SlotOf(get(last.msg, "b").v[2])


-----------------------------------------------------------------------------
(* rest_fetcher.rs: a pass of fetch_one_minute or fetch_five_minute as the  *)
(* futures it joins.  The requests of the pass finish one by one, in any   *)
(* order, each with the answer it gets; the pass returns from the join.    *)

JoinLists == {<<"BTCUSDT">>, <<"BTCUSDT", "ETHUSDT">>}

\* the per-symbol request categories of a pass, and its single requests
SymbolCategories(pass) ==
    IF pass = "fetch_five_minute"
    THEN {"top_account", "top_position", "global_account", "open_interest_hist"}
    ELSE {"premium_index", "open_interest"}
SingleCategories(pass) ==
    IF pass = "fetch_five_minute" THEN {}
    ELSE {"bapi_borrow_repay", "bapi_available_inventory"}

\* what the request of a category returns for the answer a it gets: with
\* a = 1 the request fails (an error of the transport, a timeout among them),
\* with a = 2 it is answered with the data of close_time
JoinResult(category, symbol, close_time, a) ==
    CASE category \in {"top_account", "top_position", "global_account"} ->
             fetch_ratio_metrics(RatioResponses(close_time)[IF a = 1 THEN 1 ELSE 3],
                                 symbol, "longAccount", "shortAccount", close_time)
      [] category = "open_interest_hist" ->
             fetch_open_interest_hist(OpenInterestHistResponses(close_time)[a],
                                      symbol, close_time)
      [] category = "premium_index" ->
             fetch_premium_index(
                 PremiumResponses(close_time - ONE_MINUTE_MILLIS)[IF a = 1 THEN 1 ELSE 6],
                 symbol, close_time)
      [] category = "open_interest" ->
             fetch_open_interest(OpenInterestResponses(close_time)[IF a = 1 THEN 1 ELSE 4],
                                 symbol)
      [] category = "bapi_borrow_repay" -> StatusResults(close_time)[a][1]
      [] category = "bapi_available_inventory" -> StatusResults(close_time)[a][2]

\* a future of the join that has finished with answer a
Finished(a, result) == [some |-> TRUE, answer |-> a, val |-> result]

InitJoin ==
    /\ bus = <<>>
    /\ ConnectIdle
    /\ RetryIdle
    /\ sent = 0
    /\ ParsersIdle
    /\ RestIdle
    /\ ProxyIdle
    /\ fetch_pc = "join"
    /\ fetch_res = [ok |-> FALSE, v |-> "none"]
    /\ \E pass \in {"fetch_one_minute", "fetch_five_minute"}, l \in JoinLists :
         /\ fetch_req = [endpoint |-> pass, symbols |-> l, close_time |-> FIVE_MINUTE_MILLIS]
         /\ join_slots =
              [c \in SymbolCategories(pass) \cup SingleCategories(pass) |->
                  [i \in 1..(IF c \in SymbolCategories(pass) THEN Len(l) ELSE 1) |-> None]]

\* one request of the pass finishes, Ok or Err
JoinFinish ==
    /\ fetch_pc = "join"
    /\ \E c \in DOMAIN join_slots :
         \E i \in DOMAIN join_slots[c], a \in {1, 2} :
            /\ ~join_slots[c][i].some
            /\ join_slots' =
                 [join_slots EXCEPT ![c][i] =
                     Finished(a, JoinResult(c,
                         IF c \in SymbolCategories(fetch_req.endpoint)
                         THEN fetch_req.symbols[i] ELSE "bapi",
                         fetch_req.close_time, a))]
    /\ UNCHANGED <<retryVars, connVars, proxyVars, bus, sent, parserVars, restVars,
                   fetchVars>>

\* the results of a category in the order of the futures joined; a future
\* that has not finished has none
Joined(category) ==
    [i \in DOMAIN join_slots[category] |->
        IF join_slots[category][i].some THEN join_slots[category][i].val
        ELSE Err("pending")]

\* the value the pass builds from the joined results
JoinCollect ==
    IF fetch_req.endpoint = "fetch_five_minute"
    THEN [close_time |-> fetch_req.close_time,
          top_account |-> Slots(fetch_req.symbols, Joined("top_account")),
          top_position |-> Slots(fetch_req.symbols, Joined("top_position")),
          global_account |-> Slots(fetch_req.symbols, Joined("global_account")),
          open_interest_hist |-> Slots(fetch_req.symbols, Joined("open_interest_hist"))]
    ELSE [close_time |-> fetch_req.close_time,
          premium_index |-> Slots(fetch_req.symbols, Joined("premium_index")),
          open_interest |-> Slots(fetch_req.symbols, Joined("open_interest")),
          bapi_borrow_repay |-> Joined("bapi_borrow_repay")[1],
          bapi_available_inventory |-> Joined("bapi_available_inventory")[1]]

\* a plausible slip: a join that returns at the first error (try_join)
JoinReturn_at_first_error ==
    /\ fetch_pc = "join"
    /\ \/ \A c \in DOMAIN join_slots : \A i \in DOMAIN join_slots[c] : join_slots[c][i].some
       \/ \E c \in DOMAIN join_slots : \E i \in DOMAIN join_slots[c] :
             join_slots[c][i].some /\ ~join_slots[c][i].val.ok
    /\ fetch_res' = Ok(JoinCollect)
    /\ fetch_pc' = "done"
    /\ UNCHANGED <<join_slots, retryVars, connVars, proxyVars, bus, sent, parserVars,
                   restVars, fetch_req>>

\* tokio::join! of the join_all of each category: every future has finished;
\* the loops push one slot per result, in order
JoinReturn ==
    /\ fetch_pc = "join"
    /\ \A c \in DOMAIN join_slots : \A i \in DOMAIN join_slots[c] : join_slots[c][i].some
    /\ fetch_res' = Ok(JoinCollect)
    /\ fetch_pc' = "done"
    /\ UNCHANGED <<join_slots, retryVars, connVars, proxyVars, bus, sent, parserVars,
                   restVars, fetch_req>>

NextJoin ==
    \/ JoinFinish
    \/ JoinReturn

SpecJoin == InitJoin /\ [][NextJoin]_vars

(***************************************************************************)
(* Properties of fetch_one_minute and fetch_five_minute                    *)
(***************************************************************************)

\* the pass has returned
JoinReturned == fetch_pc = "done" /\ fetch_req.endpoint \in {"fetch_one_minute", "fetch_five_minute"}

\* the slot of a symbol: the data of its own request, or the symbol with the
\* error of its own request
OwnSlot(category, i) ==
    LET own == JoinResult(category, fetch_req.symbols[i], fetch_req.close_time,
                          join_slots[category][i].answer)
    IN IF own.ok THEN own ELSE Err(<<fetch_req.symbols[i], own.v>>)

\* C32: fetch_one_minute and fetch_five_minute return only after every request
\* of the pass has finished, Ok or Err; in each request category the result
\* holds exactly one slot per symbol of the list, in the order of the list,
\* and the slot of a symbol is that of its own request whatever the requests
\* of the other symbols returned.
C32_JoinedSlotsPerSymbol ==
    JoinReturned =>
        /\ \A c \in DOMAIN join_slots : \A i \in DOMAIN join_slots[c] : join_slots[c][i].some
        /\ \A c \in SymbolCategories(fetch_req.endpoint) :
             /\ DOMAIN fetch_res.v[c] = DOMAIN fetch_req.symbols
             /\ \A i \in DOMAIN fetch_req.symbols :
                  /\ fetch_res.v[c][i] = OwnSlot(c, i)
                  /\ IF fetch_res.v[c][i].ok
                     THEN fetch_res.v[c][i].v.symbol = fetch_req.symbols[i]
                     ELSE fetch_res.v[c][i].v[1] = fetch_req.symbols[i]

\* a five-minute pass over two symbols has returned: every request of BTCUSDT
\* failed, every request of ETHUSDT was answered
C32_Witness ==
    /\ JoinReturned
    /\ fetch_req.endpoint = "fetch_five_minute"
    /\ Len(fetch_req.symbols) = 2
    /\ \A c \in SymbolCategories("fetch_five_minute") :
         /\ ~fetch_res.v[c][1].ok
         /\ fetch_res.v[c][2].ok
         /\ fetch_res.v[c][2].v.symbol = "ETHUSDT"

-----------------------------------------------------------------------------
(* The schedule of the five-minute pass over two five-minute boundaries:   *)
(* the loop of run_rest_fetcher_with_sender with fan-outs whose requests   *)
(* succeed and refreshes that succeed or fail.                             *)

\* ticks after which the loop is followed only while a pass is pending
MaxScheduleTicks == 6

\* the five-minute boundaries the loop reaches
ScheduleBoundaries == {FIVE_MINUTE_MILLIS, 2 * FIVE_MINUTE_MILLIS}

\* milliseconds the one-minute fan-out takes (three tries of 1 s at most)
ScheduleDurations == {200, 2000}

InitSchedule == InitRest /\ mode = "rest"

\* lines 1396-1402: the next minute boundary is computed and slept until
ScheduleWait ==
    /\ pc = "wait"
    /\ ticks < MaxScheduleTicks \/ pending_five_min.some
    /\ ticks' = ticks + 1
    /\ tick_close_time' = next_minute_boundary(now)
    /\ now' = tick_close_time'
    /\ pc' = IF is_five_minute_boundary(tick_close_time') THEN "refresh" ELSE "delay"
    /\ one_min_result' = None
    /\ five_min_result' = None
    /\ UNCHANGED <<join_slots, retryVars, connVars, proxyVars, bus, sent, parserVars, fetchVars, mode, pending_five_min,
                   fetcher_symbols, refresh_res, bapi_cache, passes>>

\* lines 1405-1427: at a five-minute boundary the symbol list is refreshed,
\* kept when the refresh fails, and the five-minute pass is scheduled 180 s
\* after the refresh has returned
ScheduleRefresh ==
    /\ pc = "refresh"
    /\ \E r \in DOMAIN RefreshResults, d \in {100, 1500} :
        /\ fetcher_symbols' = refresh_symbols(fetcher_symbols, RefreshResults[r])
        /\ now' = now + d
        /\ pending_five_min' =
              Some([close_time |-> tick_close_time,
                    ready |-> now' + 1000 * FIVE_MIN_REQUEST_DELAY_SECS])
    /\ pc' = "delay"
    /\ UNCHANGED <<join_slots, retryVars, connVars, proxyVars, bus, sent, parserVars, fetchVars, mode, tick_close_time,
                   refresh_res, bapi_cache, ticks, passes, one_min_result, five_min_result>>

\* lines 1436-1471: the 1 s delay, a one-minute fan-out whose premium-index
\* and open-interest requests succeed and whose status requests fail, its
\* frames, the BarClose1m frame and the test of the pending five-minute pass
ScheduleOneMinute ==
    /\ pc = "delay"
    /\ \E d \in ScheduleDurations :
       \E result \in {fetch_one_minute(fetcher_symbols, tick_close_time,
                [i \in DOMAIN fetcher_symbols |->
                    PremiumResponses(tick_close_time - ONE_MINUTE_MILLIS)[6]],
                [i \in DOMAIN fetcher_symbols |->
                    OpenInterestResponses(tick_close_time)[4]],
                StatusResults(tick_close_time)[1][1],
                StatusResults(tick_close_time)[1][2])} :
       \E frames \in {one_minute_frames(result, bapi_cache)} :
           /\ now' = now + REQUEST_DELAY_MS + d
           /\ bus' = Publish(bus, "rest", tick_close_time, frames)
           /\ sent' = sent + Sent(Len(frames))
           /\ bapi_cache' = MktStatusCacheAfter(result, bapi_cache)
           /\ one_min_result' = Some(result)
           /\ pc' = IF five_minute_ready(pending_five_min, now') THEN "five" ELSE "wait"
    /\ UNCHANGED <<join_slots, retryVars, connVars, proxyVars, parserVars, fetchVars, mode, tick_close_time, pending_five_min,
                   fetcher_symbols, refresh_res, ticks, passes, five_min_result>>

\* lines 1472-1482: the five-minute fan-out for the scheduled close time,
\* whose requests succeed, and its frames; the pass is no longer pending
ScheduleFiveMinute ==
    /\ pc = "five"
    /\ \E a \in [DOMAIN fetcher_symbols -> {<<3, 3, 3, 2>>}],
          d \in FetchDurations,
          scheduled_close_time \in {five_minute_close_time(pending_five_min, tick_close_time)} :
       \E result \in {fetch_five_minute(fetcher_symbols, scheduled_close_time,
                [i \in DOMAIN fetcher_symbols |-> RatioResponses(scheduled_close_time)[a[i][1]]],
                [i \in DOMAIN fetcher_symbols |-> RatioResponses(scheduled_close_time)[a[i][2]]],
                [i \in DOMAIN fetcher_symbols |-> RatioResponses(scheduled_close_time)[a[i][3]]],
                [i \in DOMAIN fetcher_symbols |->
                    OpenInterestHistResponses(scheduled_close_time)[a[i][4]]])} :
       \E order \in Orders(result.top_account) :
       \E frames \in {send_five_minute_messages(result, order)} :
            /\ now' = now + d
            /\ bus' = Publish(bus, "rest", tick_close_time, frames)
            /\ sent' = sent + Sent(Len(frames))
            /\ passes' = Append(passes, [scheduled |-> pending_five_min.val.close_time,
                                         ready |-> pending_five_min.val.ready,
                                         issued |-> now,
                                         tick |-> tick_close_time])
            /\ five_min_result' = Some(result)
    /\ pending_five_min' = None
    /\ pc' = "wait"
    /\ UNCHANGED <<join_slots, retryVars, connVars, proxyVars, parserVars, fetchVars, mode, tick_close_time, fetcher_symbols, refresh_res,
                   bapi_cache, ticks, one_min_result>>

NextSchedule ==
    \/ ScheduleWait
    \/ ScheduleRefresh
    \/ ScheduleOneMinute
    \/ ScheduleFiveMinute

SpecSchedule == InitSchedule /\ [][NextSchedule]_vars

\* the loop is one task whose awaits are sleeps and requests with timeouts, so
\* a step that can be taken is taken
FairSpecSchedule == SpecSchedule /\ WF_vars(NextSchedule)

\* the five-minute passes executed for the close time
PassesFor(close_time) == {i \in DOMAIN passes : passes[i].scheduled = close_time}

\* C33: every tick whose close_time is a five-minute boundary leads to exactly
\* one execution of fetch_five_minute, made for the scheduled boundary and not
\* for the tick that runs it; pending_five_min holds the one pass scheduled at
\* the boundary and is cleared only by executing that pass, never dropped or
\* replaced while it is pending.
C33_FiveMinuteScheduling ==
    /\ [][/\ pc = "refresh" =>
                /\ is_five_minute_boundary(tick_close_time)
                /\ ~pending_five_min.some
                /\ pending_five_min'.some
                /\ pending_five_min'.val.close_time = tick_close_time
          /\ (pending_five_min.some /\ pending_five_min' # pending_five_min) =>
                /\ pending_five_min' = None
                /\ passes' = Append(passes, passes'[Len(passes')])
                /\ passes'[Len(passes')].scheduled = pending_five_min.val.close_time
                /\ PassesFor(pending_five_min.val.close_time) = {}
                /\ five_min_result'.some
                /\ five_min_result'.val.close_time = pending_five_min.val.close_time
                /\ tick_close_time > pending_five_min.val.close_time
          /\ (~pending_five_min.some /\ pending_five_min'.some) => pc = "refresh"
          /\ passes' # passes => (pending_five_min.some /\ pending_five_min' = None)
         ]_vars
    /\ \A T \in ScheduleBoundaries :
          [](((pc = "refresh" /\ tick_close_time = T) => <>(PassesFor(T) # {})))
    /\ [](\A T \in ScheduleBoundaries : Cardinality(PassesFor(T)) <= 1)

\* the pass of the boundary 600000 has been executed, for 600000, in a tick
\* that follows the one that ran the pass of the boundary 300000
C33_Witness ==
    /\ Len(passes) = 2
    /\ passes[1].scheduled = FIVE_MINUTE_MILLIS
    /\ passes[2].scheduled = 2 * FIVE_MINUTE_MILLIS
    /\ passes[2].tick > passes[2].scheduled
    /\ five_min_result.some
    /\ five_min_result.val.close_time = 2 * FIVE_MINUTE_MILLIS
    /\ ~pending_five_min.some

-----------------------------------------------------------------------------
(* The BinanceMktStatus cache over the ticks of run_rest_fetcher_with_sender *)
(* between two five-minute boundaries, with status responses that fail, do  *)
(* not parse, go back in time or come in seconds.                           *)

\* ticks of the loop in one behaviour
MaxStatusTicks == 3

\* the results of the borrow-repay request of the tick ct: the request fails,
\* the body does not parse, or it parses and carries the time of the tick, a
\* time two minutes older, or the time one minute older given in seconds
BorrowResults(ct) ==
    <<Err("request_error"),
      Ok([parse_ok |-> FALSE, time |-> Millis(ct), assets |-> {}]),
      Ok([parse_ok |-> TRUE, time |-> Millis(ct), assets |-> {"BTC"}]),
      Ok([parse_ok |-> TRUE, time |-> Millis(ct - 2 * ONE_MINUTE_MILLIS), assets |-> {"ETH"}]),
      Ok([parse_ok |-> TRUE, time |-> Seconds((ct - 2 * ONE_MINUTE_MILLIS) \div 1000),
          assets |-> {"BTC", "ETH"}])>>

\* the results of the available-inventory request of the tick ct
InventoryResults(ct) ==
    <<Err("authentication"),
      Ok([parse_ok |-> FALSE, time |-> Millis(ct), assets |-> {}]),
      Ok([parse_ok |-> TRUE, time |-> Millis(ct), assets |-> {"BTC", "SOL"}]),
      Ok([parse_ok |-> TRUE, time |-> Millis(ct - 2 * ONE_MINUTE_MILLIS), assets |-> {"SOL"}]),
      Ok([parse_ok |-> TRUE, time |-> Seconds((ct - 2 * ONE_MINUTE_MILLIS) \div 1000),
          assets |-> {"BTC"}])>>

\* the fetcher is started half a minute past a five-minute boundary
InitStatus ==
    /\ bus = <<>>
    /\ ConnectIdle
    /\ RetryIdle
    /\ join_slots = <<>>
    /\ sent = 0
    /\ ParsersIdle
    /\ FetchIdle
    /\ ProxyIdle
    /\ mode = "rest"
    /\ now = FIVE_MINUTE_MILLIS + 30000
    /\ pc = "wait"
    /\ tick_close_time = 0
    /\ pending_five_min = None
    /\ fetcher_symbols = <<"BTCUSDT">>
    /\ refresh_res = None
    /\ bapi_cache = BinanceMktStatusCache_default
    /\ ticks = 0
    /\ passes = <<>>
    /\ one_min_result = None
    /\ five_min_result = None

\* lines 1396-1402: the next minute boundary is computed and slept until
StatusWait ==
    /\ pc = "wait"
    /\ ticks < MaxStatusTicks
    /\ ticks' = ticks + 1
    /\ tick_close_time' = next_minute_boundary(now)
    /\ now' = tick_close_time'
    /\ pc' = IF is_five_minute_boundary(tick_close_time') THEN "refresh" ELSE "delay"
    /\ one_min_result' = None
    /\ five_min_result' = None
    /\ UNCHANGED <<join_slots, retryVars, connVars, proxyVars, bus, sent, parserVars, fetchVars, mode, pending_five_min,
                   fetcher_symbols, refresh_res, bapi_cache, passes>>

\* lines 1436-1471: the 1 s delay, a one-minute fan-out whose premium-index
\* and open-interest requests succeed, its frames, the BinanceMktStatus frame
\* from the cache the status responses are applied to, the BarClose1m frame
\* and the test of the pending five-minute pass
StatusOneMinute ==
    /\ pc = "delay"
    /\ \E b \in DOMAIN BorrowResults(tick_close_time),
          i \in DOMAIN InventoryResults(tick_close_time),
          d \in FetchDurations :
        LET result == fetch_one_minute(fetcher_symbols, tick_close_time,
                [k \in DOMAIN fetcher_symbols |->
                    PremiumResponses(tick_close_time - ONE_MINUTE_MILLIS)[6]],
                [k \in DOMAIN fetcher_symbols |->
                    OpenInterestResponses(tick_close_time)[4]],
                BorrowResults(tick_close_time)[b],
                InventoryResults(tick_close_time)[i])
            frames == one_minute_frames(result, bapi_cache)
        IN /\ now' = now + REQUEST_DELAY_MS + d
           /\ bus' = Publish(bus, "rest", tick_close_time, frames)
           /\ sent' = sent + Sent(Len(frames))
           /\ bapi_cache' = MktStatusCacheAfter(result, bapi_cache)
           /\ one_min_result' = Some(result)
           /\ pc' = IF five_minute_ready(pending_five_min, now') THEN "five" ELSE "wait"
    /\ UNCHANGED <<join_slots, retryVars, connVars, proxyVars, parserVars, fetchVars, mode, tick_close_time, pending_five_min,
                   fetcher_symbols, refresh_res, ticks, passes, five_min_result>>

NextStatus ==
    \/ StatusWait
    \/ StatusOneMinute

SpecStatus == InitStatus /\ [][NextStatus]_vars

\* the status response was received and deserializes
Parsed(res) == res.ok /\ res.v.parse_ok

\* the BinanceMktStatus frames among the frames published in the step
StatusFramesOfStep ==
    LET n == sent' - sent IN
    {k \in (Len(bus') - n + 1)..Len(bus') : bus'[k].f[1].wval = 1021}

\* C34: a BinanceMktStatus frame is published in a tick if and only if both
\* caches are populated once the responses of the tick are applied: none
\* before each endpoint has succeeded once, and from then on exactly one per
\* tick, built from the cache, also in a tick whose requests failed.
C34_StatusFrameIffBothCached ==
    [][pc = "delay" =>
          LET r == one_min_result'.val
              ready == bapi_cache'.borrow.some /\ bapi_cache'.inventory.some
          IN /\ bapi_cache'.borrow.some <=>
                    (bapi_cache.borrow.some \/ Parsed(r.bapi_borrow_repay))
             /\ bapi_cache'.inventory.some <=>
                    (bapi_cache.inventory.some \/ Parsed(r.bapi_available_inventory))
             /\ Cardinality(StatusFramesOfStep) = IF ready THEN 1 ELSE 0
             /\ \A k \in StatusFramesOfStep :
                   /\ bus'[k].id = tick_close_time
                   /\ bus'[k].f[2].wval = calc_period(tick_close_time)
                   /\ bus'[k].f[4].wval.last_update_time = bapi_cache'.inventory.val.time
                   /\ bus'[k].f[4].wval.borrow_statuses =
                         bapi_cache'.borrow.val.assets \cup bapi_cache'.inventory.val.assets
      ]_vars

\* both status requests of the tick failed and the tick has published a
\* BinanceMktStatus frame from the cache
C34_Witness ==
    /\ pc = "wait"
    /\ one_min_result.some
    /\ ~one_min_result.val.bapi_borrow_repay.ok
    /\ ~one_min_result.val.bapi_available_inventory.ok
    /\ \E k \in DOMAIN bus : bus[k].f[1].wval = 1021 /\ bus[k].id = tick_close_time

\* the response leaves the cache entry with the time old_entry alone: it
\* failed, does not parse, or is older once normalized to milliseconds
LeavesAlone(res, old_entry) ==
    \/ ~Parsed(res)
    \/ old_entry.some /\ normalize_timestamp_millis(res.v.time) < old_entry.val.time

\* C35: the cached calculation_time and the cached update_time never
\* decrease; a response that is older once normalized to milliseconds, or that
\* does not parse, leaves its cache entry unchanged, whatever the response of
\* the other endpoint is.
C35_CachedTimesNeverDecrease ==
    [][pc = "delay" =>
          LET r == one_min_result'.val IN
          /\ bapi_cache.borrow.some =>
                /\ bapi_cache'.borrow.some
                /\ bapi_cache'.borrow.val.time >= bapi_cache.borrow.val.time
          /\ bapi_cache.inventory.some =>
                /\ bapi_cache'.inventory.some
                /\ bapi_cache'.inventory.val.time >= bapi_cache.inventory.val.time
          /\ LeavesAlone(r.bapi_borrow_repay, bapi_cache.borrow) =>
                bapi_cache'.borrow = bapi_cache.borrow
          /\ LeavesAlone(r.bapi_available_inventory, bapi_cache.inventory) =>
                bapi_cache'.inventory = bapi_cache.inventory
      ]_vars

\* a borrow-repay response given in seconds that is older than the cached one
\* has left the entry alone in a tick that has replaced the inventory entry
C35_Witness ==
    /\ pc = "wait"
    /\ one_min_result.some
    /\ Parsed(one_min_result.val.bapi_borrow_repay)
    /\ one_min_result.val.bapi_borrow_repay.v.time.secs
    /\ bapi_cache.borrow.some
    /\ normalize_timestamp_millis(one_min_result.val.bapi_borrow_repay.v.time)
          < bapi_cache.borrow.val.time
    /\ bapi_cache.inventory.some
    /\ bapi_cache.inventory.val.time = tick_close_time

-----------------------------------------------------------------------------
(* Proxy::run while the shutdown value is also set back to false and the   *)
(* senders of its channels are dropped.                                    *)

\* the global shutdown watch channel is sent the value false
ClearShutdown ==
    /\ shutdown' = FALSE
    /\ shutdown_unseen' = TRUE
    /\ UNCHANGED <<join_slots, dropped, retryVars, connVars, bus, sent, parserVars, restVars, fetchVars, chan, published,
                   sessions, rx_next, proxy_count, forwarded, default_parsers, proxy_pc>>

\* the sessions of a channel have made their parse calls and end: the senders
\* of the channel are dropped
DropSenders(c) ==
    /\ c \notin dropped
    /\ calls = MaxBusCalls
    /\ \A i \in DOMAIN Sessions : Sessions[i].ch = c => sessions[i].pending = <<>>
    /\ dropped' = dropped \cup {c}
    /\ UNCHANGED <<join_slots, shutdown_unseen, retryVars, connVars, bus, sent, parserVars, restVars, fetchVars, chan, published,
                   sessions, rx_next, proxy_count, forwarded, default_parsers, shutdown, proxy_pc>>

NextProxy ==
    \/ \E i \in DOMAIN Sessions : SessionParse(i)
    \/ \E i \in DOMAIN Sessions : SessionSend(i)
    \/ AssertShutdown
    \/ ClearShutdown
    \/ \E c \in Channels : DropSenders(c)
    \/ ProxyShutdown
    \/ \E c \in Channels : ProxyRecv(c)
    \/ ProxyStats

SpecProxy == InitBus /\ [][NextProxy]_vars

\* the step counts a frame received on the channel
CountsFrame(c) == proxy_count'[c] = proxy_count[c] + 1

\* the default parser of the channel returns Some for the frame sent at pos
ParserReturnsSome(c, pos) == published[c][pos].f[1].wval \notin default_parsers

\* C36: Proxy::run leaves its loop only on observing the shutdown value true;
\* a Lagged or Closed receive error, a shutdown change to false and a stats
\* tick neither end the loop nor forward a frame; a received frame is
\* forwarded exactly when the parser of its channel returns Some; the counts
\* of received frames are set to 0 at a stats tick.
C36_ProxyRunLoop ==
    [][/\ proxy_pc' # proxy_pc =>
             /\ proxy_pc = "run" /\ proxy_pc' = "stopped"
             /\ shutdown /\ shutdown_unseen /\ ~shutdown_unseen'
             /\ forwarded' = forwarded
       /\ (shutdown_unseen /\ ~shutdown_unseen' /\ ~shutdown) =>
             proxy_pc' = "run" /\ forwarded' = forwarded
       /\ forwarded' # forwarded =>
             \E c \in Channels :
                /\ CountsFrame(c)
                /\ forwarded' = Append(forwarded,
                      [ch |-> c, pos |-> rx_next'[c], entry |-> published[c][rx_next'[c]]])
       /\ \A c \in Channels :
             /\ CountsFrame(c) =>
                   /\ rx_next'[c] = rx_next[c] + 1
                   /\ ParserReturnsSome(c, rx_next'[c]) <=> forwarded' # forwarded
             /\ (rx_next'[c] # rx_next[c] /\ ~CountsFrame(c)) =>
                   /\ rx_next'[c] = chan[c].sent - Len(chan[c].buf)
                   /\ forwarded' = forwarded
                   /\ proxy_pc' = proxy_pc
             /\ (c \in dropped /\ rx_next[c] = chan[c].sent) => rx_next'[c] = rx_next[c]
       /\ (proxy_count' # proxy_count /\ \A c \in Channels : ~CountsFrame(c)) =>
             /\ proxy_count' = [c \in Channels |-> 0]
             /\ forwarded' = forwarded
             /\ rx_next' = rx_next
             /\ proxy_pc' = proxy_pc
      ]_vars

\* the loop has stopped after it lost the first frames of the inc channel,
\* forwarded later ones and drained the channel, whose senders are dropped
C36_Witness ==
    /\ proxy_pc = "stopped"
    /\ shutdown
    /\ default_parsers = {}
    /\ forwarded # <<>>
    /\ forwarded[1].ch = "inc"
    /\ forwarded[1].pos > 1
    /\ "inc" \in dropped
    /\ rx_next["inc"] = chan["inc"].sent

-----------------------------------------------------------------------------
(* The REST task of a closed futures bar when no premium-index record      *)
(* matches the bar (binance_parser.rs 597-679, 681-760, 837-851).          *)

\* the frames a step publishes, with their senders
TaskFramesOfStep ==
    LET n == IF sent' - sent > Len(bus') THEN Len(bus') ELSE sent' - sent
    IN SubSeq(bus', Len(bus') - n + 1, Len(bus'))

\* the step is the premium-index step of task i answered with p
PremiumStep(i, p) ==
    /\ tasks[i].pc = "premium"
    /\ TaskStep(i, TaskPremium(tasks[i], p))

\* the step is the open-interest step of task i answered with o
OpenInterestStep(i, o) ==
    /\ tasks[i].pc = "oi"
    /\ TaskStep(i, TaskOpenInterest(tasks[i], o))

\* records were returned and none has the open time of the bar of task t
NoRecordMatches(p, t) ==
    /\ p.st = "ok"
    /\ p.body # <<>>
    /\ \A k \in DOMAIN p.body : p.body[k].open_time # t.kline_open_tp

\* after the premium-index step of task i answered with p the task goes on
\* with a message built from the first record and has recorded the failure
GoesOnWithFirstRecord(i, p) ==
    /\ Len(tasks') = Len(tasks)
    /\ tasks'[i].pc = "oi"
    /\ tasks'[i].msg = PremiumIndexKlineMsg_create(tasks[i].symbol,
                           p.body[1].open_price, p.body[1].high_price,
                           p.body[1].low_price, p.body[1].close_price,
                           p.body[1].open_time)
    /\ ~tasks'[i].rest_summary[PremiumIndex].success

\* the step publishes, for task i, a PremiumIndexKline frame with the prices
\* and open time the task holds and then a RestSummary1m frame that marks the
\* premium-index request as failed
PublishesFrameAndFailure(i) ==
    \E a, b \in DOMAIN TaskFramesOfStep :
        LET kline == TaskFramesOfStep[a]
            summary == TaskFramesOfStep[b]
        IN /\ a < b
           /\ kline.by = "task" /\ kline.id = tasks[i].id
           /\ summary.by = "task" /\ summary.id = tasks[i].id
           /\ SubSeq(kline.f, 1, 8) =
                 SubSeq(PremiumIndexKlineMsg_to_bytes(tasks[i].msg), 1, 8)
           /\ summary.f[1] = U32(RestSummary1m)
           /\ summary.f[3] = Raw(tasks[i].symbol)
           /\ summary.f[5] = U8(PremiumIndex)
           /\ summary.f[6] = U8(0)

\* a PremiumIndexKline frame of a task is published only in the open-interest
\* step of the task, answered with 2xx and JSON, and a task reaches that step
\* only when its premium-index request was answered with 2xx and JSON
OnlyAfterBothResponses ==
    /\ \A j \in DOMAIN TaskFramesOfStep :
          (/\ TaskFramesOfStep[j].by = "task"
           /\ TaskFramesOfStep[j].f[1] = U32(PremiumIndexKline))
          => \E i \in 1..Len(tasks) :
                /\ tasks[i].id = TaskFramesOfStep[j].id
                /\ tasks[i].pc = "oi"
                /\ LET rs == OpenInterestResponses(tasks[i].kline_close_tp) IN
                   /\ \E k \in DOMAIN rs : OpenInterestStep(i, rs[k])
                   /\ \A k \in DOMAIN rs : OpenInterestStep(i, rs[k]) => rs[k].st = "ok"
    /\ \A i \in 1..Len(tasks) :
          LET ps == PremiumResponses(tasks[i].kline_open_tp) IN
          \A k \in DOMAIN ps :
             (/\ PremiumStep(i, ps[k])
              /\ Len(tasks') = Len(tasks)
              /\ tasks'[i].pc = "oi") => ps[k].st = "ok"

-----------------------------------------------------------------------------
(* The summaries of the REST task of a closed futures bar                  *)
(* (binance_parser.rs 106-153, 460-551, 843-853, 1030-1037).               *)

\* the positions of the frames of the type that the step publishes for the
\* task with the id
TaskFramesOfType(type, id) ==
    {j \in DOMAIN TaskFramesOfStep :
        /\ TaskFramesOfStep[j].by = "task"
        /\ TaskFramesOfStep[j].id = id
        /\ TaskFramesOfStep[j].f[1] = U32(type)}

\* the close_tp of the RestSummary1m frame of the task of t when no REST step
\* fails: the record sought is returned and the open interest is well formed
SummaryCloseTpNoFailure(t) ==
    LET premium == TaskPremium([t EXCEPT !.pc = "premium"],
                       PremiumResponses(t.kline_open_tp)[6])
        open_interest == TaskOpenInterest(premium.task,
                             OpenInterestResponses(t.kline_close_tp)[4])
    IN open_interest.out[2][4]

\* the task with the id is in its one-minute stage
InOneMinuteStage(ts, id) ==
    \E k \in 1..Len(ts) : ts[k].id = id /\ ts[k].pc \in {"premium", "oi"}

\* C39: for each closed futures kline with close time T the REST task
\* publishes exactly one RestSummary1m frame on every execution path, with
\* the same bar-close value as close_tp on every path, whichever REST step
\* failed; it publishes a RestSummary5m frame at most once, and only when
\* T + 1 is a multiple of 300,000 ms.
C39_OneSummaryWithBarClose ==
    [][/\ \A i \in 1..Len(tasks) :
             LET t == tasks[i]
                 ps == PremiumResponses(t.kline_open_tp)
                 rs == OpenInterestResponses(t.kline_close_tp)
                 OneSummary ==
                     /\ Cardinality(TaskFramesOfType(RestSummary1m, t.id)) =
                           (IF InOneMinuteStage(tasks', t.id) THEN 0 ELSE 1)
                     /\ \A j \in TaskFramesOfType(RestSummary1m, t.id) :
                           TaskFramesOfStep[j].f[4] = SummaryCloseTpNoFailure(t)
                     /\ TaskFramesOfType(RestSummary5m, t.id) = {}
             IN /\ \A k \in DOMAIN ps : PremiumStep(i, ps[k]) => OneSummary
                /\ \A k \in DOMAIN rs : OpenInterestStep(i, rs[k]) => OneSummary
       /\ \A j \in DOMAIN TaskFramesOfStep :
             (/\ TaskFramesOfStep[j].by = "task"
              /\ TaskFramesOfStep[j].f[1] = U32(RestSummary5m))
             => /\ Cardinality(TaskFramesOfType(RestSummary5m, TaskFramesOfStep[j].id)) = 1
                /\ TaskFramesOfType(RestSummary1m, TaskFramesOfStep[j].id) = {}
                /\ \E i \in 1..Len(tasks) :
                      /\ tasks[i].id = TaskFramesOfStep[j].id
                      /\ tasks[i].pc = "five"
                      /\ tasks[i].kline_close_tp % FIVE_MINUTE_MILLIS = 0
                /\ \A k \in 1..Len(tasks') : tasks'[k].id # TaskFramesOfStep[j].id
      ]_vars

====
